---- MODULE Spec2Model ----
(***************************************************************************)
(* A model of amdgpu_top's sensor acquisition (libamdgpu_top               *)
(* stat/sensors.rs: parse_hwmon, PowerCap::from_hwmon_path, Sensors::new,  *)
(* Sensors::update) and of the GUI (amdgpu_top_gui app.rs): the sort state *)
(* of the process table (MyApp::set_fdinfo_sort_type), the process table   *)
(* and plot of one frame (egui_grid_fdinfo, egui_fdinfo_plot), the         *)
(* exchange of CentralData between the sampler thread and the front ends,  *)
(* the PCIe bandwidth history and its label (egui_pcie_bw), and the sensor *)
(* and activity views (egui_sensors, avg_activity); and of the entry point *)
(* (src/main.rs: main, device_list, from_main_opt, select_apu).            *)
(*                                                                         *)
(* Text is a sequence of one-character strings.  A u32 is a pair of 16-bit *)
(* limbs [hi, lo] (value hi * 65536 + lo), so that the whole 32-bit range, *)
(* u32::MAX included, is represented exactly.                              *)
(***************************************************************************)
EXTENDS Integers, Sequences, FiniteSets, TLC

VARIABLES
    hwmon,          \* the hwmon sysfs directory: file name -> file
    ph_file,        \* the file handed to parse_hwmon (file-parsing runs)
    ph_out,         \* what parse_hwmon returned for ph_file
    pc_out,         \* what PowerCap::from_hwmon_path returned for hwmon
    hwmon_resolved, \* whether pci_bus.get_hwmon_path() finds a directory
    link_max,       \* what get_link_info(PCI::STATUS::Max) answers
    sensors,        \* the Sensors value (or that none exists yet / a panic)
    reads,          \* the answers the device gave to the queries of the last call
                    \* and, for an update, the queries it issued in order
    op,             \* the last Sensors operation that ran
    fdinfo_sort,    \* MyApp.fdinfo_sort
    reverse_sort,   \* MyApp.reverse_sort
    sort_call,      \* the last set_fdinfo_sort_type call: its argument and the
                    \* two fields as they were before it
    has_vcn_unified,\* MyApp.has_vcn_unified
    proc_usage,     \* MyApp.buf_data.fdinfo.proc_usage
    fdinfo_history, \* MyApp.buf_data.fdinfo_history, oldest point first
    clicked,        \* the header buttons that reported a click in the last frame
    unsorted,       \* proc_usage as the last frame found it
    grid,           \* the cells the last frame put in the process table
    plot,           \* the lines the last frame put in the process plot
    arc_data,       \* MyApp.arc_data: the CentralData behind the Mutex
    mutex,          \* who holds the Mutex of arc_data
    sampler,        \* the sampler thread: its position, its tick, the
                    \* CentralData it has collected
    buf_data,       \* MyApp.buf_data of every front end
    reader,         \* every front end's position in its copy of arc_data
    capacity,       \* the capacity pcie_bw_history was built with
    pcie_bw_history,\* MyApp.buf_data.pcie_bw_history, oldest pair first
    pushed,         \* every pair pushed to pcie_bw_history, in order
    pcie_bw_label,  \* the label egui_pcie_bw put under the plot
    view_data,      \* the sensors and the activity of MyApp.buf_data
    sensors_view,   \* the labels egui_sensors has put in its grid
    activity_view,  \* the labels avg_activity has put in its row
    build,          \* the cargo features main is compiled with
    main_opt,       \* what MainOpt::parse() returned
    device_path_list,\* what DevicePath::get_device_path_list() returned
    pc,             \* where main is
    scan,           \* the position of select_apu's loop in the list
    selected,       \* the (device_path, amdgpu_dev) main has selected
    stdout,         \* what main.rs has printed to standard output
    stderr,         \* what main.rs has printed to standard error
    opened,         \* the devices an init() call of main.rs has opened
    actions         \* the terminal actions main has taken

\* the variables of the process table's frame
fdinfoVars == <<has_vcn_unified, proc_usage, fdinfo_history, clicked, unsorted,
                grid, plot>>

\* the variables of the snapshot exchange
exchangeVars == <<arc_data, mutex, sampler, buf_data, reader>>

\* the variables of the PCIe bandwidth history
historyVars == <<capacity, pcie_bw_history, pushed, pcie_bw_label>>

\* the variables of the sensor and activity views
viewVars == <<view_data, sensors_view, activity_view>>

\* the variables of the sensor acquisition
sensorsVars == <<hwmon, ph_file, ph_out, pc_out, hwmon_resolved, link_max,
                 sensors, reads, op>>

\* the variables of the entry point
mainVars == <<build, main_opt, device_path_list, pc, scan, selected, stdout,
              stderr, opened, actions>>

\* the variables of the GUI other than the sort state
guiVars == <<fdinfoVars, exchangeVars, historyVars, viewVars>>

vars == <<hwmon, ph_file, ph_out, pc_out, hwmon_resolved, link_max, sensors,
          reads, op, fdinfo_sort, reverse_sort, sort_call, guiVars, mainVars>>

------------------------------------------------------------------------------
(* Option<T> and Result<T, E>                                              *)

None == [tag |-> "None"]

Some(v) == [tag |-> "Some", val |-> v]

Err == [tag |-> "Err"]

Ok(v) == [tag |-> "Ok", val |-> v]

\* Result::ok
ResultOk(r) == IF r.tag = "Ok" THEN Some(r.val) ELSE None

\* the value of no operation having run yet
NotRun == [tag |-> "NotRun"]

------------------------------------------------------------------------------
(* u32 arithmetic on 16-bit limbs                                          *)

Limb == 2 ^ 16

\* the u32 of a natural number below 2^31
U32(n) == [hi |-> n \div Limb, lo |-> n % Limb]

\* u32::checked_mul(10) followed by u32::checked_add(d): None on overflow
CheckedMulAdd10(x, d) ==
    LET lo == x.lo * 10 + d
        hi == x.hi * 10 + (lo \div Limb)
    IN  IF hi >= Limb THEN None ELSE Some([hi |-> hi, lo |-> lo % Limb])

\* u32::saturating_div(d): for an unsigned integer the truncating quotient,
\* by long division on the four bytes of x (0 < d < 2^23)
SaturatingDiv(x, d) ==
    LET r3 == x.hi \div 256
        r2 == ((r3 % d) * 256) + (x.hi % 256)
        r1 == ((r2 % d) * 256) + (x.lo \div 256)
        r0 == ((r1 % d) * 256) + (x.lo % 256)
    IN  [hi |-> ((r3 \div d) * 256) + (r2 \div d),
         lo |-> ((r1 \div d) * 256) + (r0 \div d)]

------------------------------------------------------------------------------
(* Text and files                                                          *)

Digits == <<"0", "1", "2", "3", "4", "5", "6", "7", "8", "9">>

IsDigit(c) == \E i \in 1..10 : Digits[i] = c

\* char::to_digit(10) of a decimal digit
DigitVal(c) == (CHOOSE i \in 1..10 : Digits[i] = c) - 1

\* char::is_whitespace, on the characters of the model
IsWhitespace(c) == c \in {" ", "\n", "\t", "\r"}

\* str::trim_end
RECURSIVE TrimEnd(_)
TrimEnd(s) ==
    IF s = <<>> THEN s
    ELSE IF IsWhitespace(s[Len(s)]) THEN TrimEnd(SubSeq(s, 1, Len(s) - 1))
    ELSE s

\* the digit loop of <u32 as FromStr>::from_str: Err on a character that is
\* no digit and on overflow
RECURSIVE ParseDigits(_, _)
ParseDigits(s, acc) ==
    IF s = <<>> THEN Ok(acc)
    ELSE IF ~IsDigit(s[1]) THEN Err
    ELSE LET next == CheckedMulAdd10(acc, DigitVal(s[1]))
         IN  IF next = None THEN Err ELSE ParseDigits(Tail(s), next.val)

\* str::parse::<u32>: empty text and a lone sign are errors, one leading
\* "+" is accepted, "-" is no digit of an unsigned integer
ParseU32(s) ==
    IF s = <<>> THEN Err
    ELSE IF Len(s) = 1 /\ s[1] \in {"+", "-"} THEN Err
    ELSE IF s[1] = "+" THEN ParseDigits(Tail(s), U32(0))
    ELSE ParseDigits(s, U32(0))

\* a file of the directory: absent, present but not readable as UTF-8 text,
\* or text
NoFile == [kind |-> "absent", text |-> <<>>]

Unreadable == [kind |-> "unreadable", text |-> <<>>]

TextFile(s) == [kind |-> "text", text |-> s]

\* std::fs::read_to_string
ReadToString(f) == IF f.kind = "text" THEN Ok(f.text) ELSE Err

------------------------------------------------------------------------------
(* parse_hwmon and PowerCap::from_hwmon_path                               *)

\* parse_hwmon without the trim_end (a newline-terminated file then fails)
parse_hwmon_NoTrim(f) ==
    LET r == ReadToString(f)
    IN  IF r.tag = "Ok" THEN ResultOk(ParseU32(r.val)) ELSE None

parse_hwmon(f) ==
    LET r == ReadToString(f)
    IN  IF r.tag = "Ok" THEN ResultOk(ParseU32(TrimEnd(r.val))) ELSE None

PowerCapType == {"PPT", "FastPPT", "SlowPPT"}

\* the match on the content of power1_label
PowerCapTypeOf(label) ==
    IF label = <<"f", "a", "s", "t", "P", "P", "T">> THEN "FastPPT"
    ELSE IF label = <<"s", "l", "o", "w", "P", "P", "T">> THEN "SlowPPT"
    ELSE "PPT"

Power1Names == <<"power1_cap", "power1_cap_default", "power1_cap_min", "power1_cap_max">>

Power2Names == <<"power2_cap", "power2_cap_default", "power2_cap_min", "power2_cap_max">>

\* the file names chosen with the APU group never taken
CapNames_AlwaysPower1(type_) == Power1Names

\* the file names chosen for a cap type
CapNames(type_) ==
    IF type_ = "FastPPT" \/ type_ = "SlowPPT" THEN Power2Names ELSE Power1Names

\* the cap value left in microwatts
CapValue_NoDiv(dir, name) == parse_hwmon(dir[name])

\* one cap value: parse_hwmon(path.join(name)).map(|v| v.saturating_div(1_000_000))
CapValue(dir, name) ==
    LET v == parse_hwmon(dir[name])
    IN  IF v = None THEN None ELSE Some(SaturatingDiv(v.val, 1000000))

\* the struct built from the four values, a missing one reported as 0
PowerCapOf_Partial(type_, v) ==
    LET get(o) == IF o = None THEN U32(0) ELSE o.val
    IN  Some([type_ |-> type_, current |-> get(v[1]), default |-> get(v[2]),
              min |-> get(v[3]), max |-> get(v[4])])

\* a PowerCap that is built only when min <= current <= max
PowerCapOf_Ordered(type_, v) ==
    LET le(a, b) == a.hi < b.hi \/ (a.hi = b.hi /\ a.lo <= b.lo)
    IN  IF \E i \in 1..4 : v[i] = None THEN None
        ELSE IF ~(le(v[3].val, v[1].val) /\ le(v[1].val, v[4].val)) THEN None
        ELSE Some([type_ |-> type_, current |-> v[1].val, default |-> v[2].val,
                   min |-> v[3].val, max |-> v[4].val])

\* Some(Self { type_, current: current?, default: default?, min: min?, max: max? })
PowerCapOf(type_, v) ==
    IF \E i \in 1..4 : v[i] = None THEN None
    ELSE Some([type_ |-> type_, current |-> v[1].val, default |-> v[2].val,
               min |-> v[3].val, max |-> v[4].val])

\* from_hwmon_path with a label that cannot be read taken as any other label
from_hwmon_path_LabelOptional(dir) ==
    LET label == ReadToString(dir["power1_label"])
        type_ == IF label.tag = "Ok" THEN PowerCapTypeOf(label.val) ELSE "PPT"
        names == CapNames(type_)
    IN  PowerCapOf(type_, [i \in 1..4 |-> CapValue(dir, names[i])])

\* PowerCap::from_hwmon_path
from_hwmon_path(dir) ==
    LET label == ReadToString(dir["power1_label"])
    IN  IF label.tag # "Ok" THEN None
        ELSE LET type_ == PowerCapTypeOf(label.val)
                 names == CapNames(type_)
             IN  PowerCapOf(type_, [i \in 1..4 |-> CapValue(dir, names[i])])

------------------------------------------------------------------------------
(* Sensors                                                                 *)

\* the six SENSOR_TYPE queries, named by the field each one fills
SensorTypes == {"sclk", "mclk", "vddnb", "vddgfx", "temp", "power"}

\* amdgpu_dev.sensor_info(..).ok(), and for GPU_TEMP .map(|v| v.saturating_div(1_000))
SensorField(s, r) ==
    IF r.tag # "Ok" THEN None
    ELSE IF s = "temp" THEN Some(SaturatingDiv(r.val, 1000))
    ELSE Some(r.val)

\* the result of a call to Sensors::new that panicked
Panicked == [tag |-> "Panicked"]

\* Sensors::new: resolved is whether get_hwmon_path() is Some, dir the
\* directory it names, q the answers to the six sensor queries, cur and max
\* the answers of get_link_info
SensorsNew(resolved, dir, q, cur, max) ==
    IF ~resolved THEN Panicked
    ELSE [tag |-> "Sensors",
          hwmon_path |-> "hwmon",
          cur |-> cur,
          max |-> max,
          bus_info |-> "pci_bus",
          sclk |-> SensorField("sclk", q["sclk"]),
          mclk |-> SensorField("mclk", q["mclk"]),
          vddnb |-> SensorField("vddnb", q["vddnb"]),
          vddgfx |-> SensorField("vddgfx", q["vddgfx"]),
          temp |-> SensorField("temp", q["temp"]),
          critical_temp |->
              LET t == parse_hwmon(dir["temp1_crit"])
              IN  IF t = None THEN None ELSE Some(SaturatingDiv(t.val, 1000)),
          power |-> SensorField("power", q["power"]),
          power_cap |-> from_hwmon_path(dir),
          fan_rpm |-> parse_hwmon(dir["fan1_input"]),
          fan_max_rpm |-> parse_hwmon(dir["fan1_max"])]

\* Sensors::update keeping a field's previous value when its read fails
SensorsUpdate_Retain(self, dir, q, cur) ==
    LET keep(old, new) == IF new = None THEN old ELSE new
    IN  [self EXCEPT
            !.cur = cur,
            !.sclk = keep(@, SensorField("sclk", q["sclk"])),
            !.mclk = keep(@, SensorField("mclk", q["mclk"])),
            !.vddnb = keep(@, SensorField("vddnb", q["vddnb"])),
            !.vddgfx = keep(@, SensorField("vddgfx", q["vddgfx"])),
            !.temp = keep(@, SensorField("temp", q["temp"])),
            !.power = keep(@, SensorField("power", q["power"])),
            !.fan_rpm = keep(@, parse_hwmon(dir["fan1_input"]))]

\* Sensors::update giving up at a failed GFX_SCLK query, as a `?` on it would
SensorsUpdate_StopAtFailure(self, dir, q, cur) ==
    IF q["sclk"].tag # "Ok" THEN [self EXCEPT !.cur = cur, !.sclk = None]
    ELSE [self EXCEPT
            !.cur = cur,
            !.sclk = SensorField("sclk", q["sclk"]),
            !.mclk = SensorField("mclk", q["mclk"]),
            !.vddnb = SensorField("vddnb", q["vddnb"]),
            !.vddgfx = SensorField("vddgfx", q["vddgfx"]),
            !.temp = SensorField("temp", q["temp"]),
            !.power = SensorField("power", q["power"]),
            !.fan_rpm = parse_hwmon(dir["fan1_input"])]

\* Sensors::update reading capability data again
SensorsUpdate_Rediscover(self, dir, q, cur) ==
    [self EXCEPT
        !.cur = cur,
        !.sclk = SensorField("sclk", q["sclk"]),
        !.mclk = SensorField("mclk", q["mclk"]),
        !.vddnb = SensorField("vddnb", q["vddnb"]),
        !.vddgfx = SensorField("vddgfx", q["vddgfx"]),
        !.temp = SensorField("temp", q["temp"]),
        !.power = SensorField("power", q["power"]),
        !.fan_rpm = parse_hwmon(dir["fan1_input"]),
        !.fan_max_rpm = parse_hwmon(dir["fan1_input"]),
        !.max = cur]

\* Sensors::update: dir is the directory self.hwmon_path names
SensorsUpdate(self, dir, q, cur) ==
    [self EXCEPT
        !.cur = cur,
        !.sclk = SensorField("sclk", q["sclk"]),
        !.mclk = SensorField("mclk", q["mclk"]),
        !.vddnb = SensorField("vddnb", q["vddnb"]),
        !.vddgfx = SensorField("vddgfx", q["vddgfx"]),
        !.temp = SensorField("temp", q["temp"]),
        !.power = SensorField("power", q["power"]),
        !.fan_rpm = parse_hwmon(dir["fan1_input"])]

------------------------------------------------------------------------------
(* The process table's sort state                                          *)

\* the sort keys: the variants app.rs selects, and PID
FdInfoSortType == {"PID", "VRAM", "GTT", "CPU", "GFX", "Compute", "DMA", "Decode", "Encode"}

\* set_fdinfo_sort_type without the reset of the direction on a new key
set_fdinfo_sort_type_NoReset(self, sort_type) ==
    [fdinfo_sort |-> sort_type,
     reverse_sort |-> IF sort_type = self.fdinfo_sort THEN ~self.reverse_sort
                      ELSE self.reverse_sort]

\* MyApp::set_fdinfo_sort_type on the two fields it reads and writes
set_fdinfo_sort_type(self, sort_type) ==
    [fdinfo_sort |-> sort_type,
     reverse_sort |-> IF sort_type = self.fdinfo_sort THEN ~self.reverse_sort
                      ELSE FALSE]

------------------------------------------------------------------------------
(* The process table: header clicks, sort, cells and plot lines            *)

\* the decimal digits of a non-negative integer
RECURSIVE Decimal(_)
Decimal(n) ==
    IF n < 10 THEN <<Digits[n + 1]>>
    ELSE Append(Decimal(n \div 10), Digits[(n % 10) + 1])

\* format!("{n:w}") of a non-negative integer: its decimal digits, padded
\* on the left with spaces to w characters, never cut
Format(n, w) ==
    LET d == Decimal(n)
    IN  IF Len(d) >= w THEN d ELSE [i \in 1..(w - Len(d)) |-> " "] \o d

\* the header buttons of the process table, in the order they are tested
HeaderButtons(unified) ==
    IF unified THEN <<"vram", "gtt", "cpu", "gfx", "compute", "dma", "media">>
    ELSE <<"vram", "gtt", "cpu", "gfx", "compute", "dma", "decode", "encode">>

\* the media button selecting the decode key
ButtonSortType_MediaDecode(button) ==
    CASE button = "vram" -> "VRAM"
      [] button = "gtt" -> "GTT"
      [] button = "cpu" -> "CPU"
      [] button = "gfx" -> "GFX"
      [] button = "compute" -> "Compute"
      [] button = "dma" -> "DMA"
      [] button = "media" -> "Decode"
      [] button = "decode" -> "Decode"
      [] button = "encode" -> "Encode"

\* the sort key a click on a header button selects
ButtonSortType(button) ==
    CASE button = "vram" -> "VRAM"
      [] button = "gtt" -> "GTT"
      [] button = "cpu" -> "CPU"
      [] button = "gfx" -> "GFX"
      [] button = "compute" -> "Compute"
      [] button = "dma" -> "DMA"
      [] button = "media" -> "Encode"
      [] button = "decode" -> "Decode"
      [] button = "encode" -> "Encode"

\* the chain of `if ui.button(..).clicked()` of egui_grid_fdinfo: every
\* button in clicks calls set_fdinfo_sort_type, in the order of the header
RECURSIVE HeaderClicks(_, _, _)
HeaderClicks(self, buttons, clicks) ==
    IF buttons = <<>> THEN self
    ELSE HeaderClicks(
            IF Head(buttons) \in clicks
                THEN set_fdinfo_sort_type(self, ButtonSortType(Head(buttons)))
                ELSE self,
            Tail(buttons), clicks)

\* the value of a row under a sort key
SortKey(pu, sort) ==
    CASE sort = "PID" -> pu.pid
      [] sort = "VRAM" -> pu.usage.vram_usage
      [] sort = "GTT" -> pu.usage.gtt_usage
      [] sort = "CPU" -> pu.cpu_usage
      [] sort = "GFX" -> pu.usage.gfx
      [] sort = "Compute" -> pu.usage.compute
      [] sort = "DMA" -> pu.usage.dma
      [] sort = "Decode" -> pu.usage.dec
      [] sort = "Encode" -> pu.usage.enc

\* whether row a is ordered strictly before row b
SortsBefore(a, b, sort, reverse) ==
    IF reverse THEN SortKey(a, sort) > SortKey(b, sort)
    ELSE SortKey(a, sort) < SortKey(b, sort)

\* a sort in ascending order whose descending order is the ascending one
\* turned around
RECURSIVE sort_proc_usage_ReverseAfter(_, _, _)
sort_proc_usage_ReverseAfter(proc, sort, reverse) ==
    IF reverse
        THEN LET asc == sort_proc_usage_ReverseAfter(proc, sort, FALSE)
             IN  [i \in 1..Len(asc) |-> asc[Len(asc) + 1 - i]]
    ELSE IF proc = <<>> THEN <<>>
    ELSE LET n == Len(proc)
             rest == sort_proc_usage_ReverseAfter(SubSeq(proc, 1, n - 1), sort, FALSE)
             k == Cardinality({i \in 1..Len(rest) : ~SortsBefore(proc[n], rest[i], sort, FALSE)})
         IN  SubSeq(rest, 1, k) \o <<proc[n]>> \o SubSeq(rest, k + 1, Len(rest))

\* stat::sort_proc_usage: a stable sort of the rows by the key, ascending or
\* (reverse) descending: each row in turn is put behind the rows that do not
\* come after it
RECURSIVE sort_proc_usage(_, _, _)
sort_proc_usage(proc, sort, reverse) ==
    IF proc = <<>> THEN <<>>
    ELSE LET n == Len(proc)
             rest == sort_proc_usage(SubSeq(proc, 1, n - 1), sort, reverse)
             k == Cardinality({i \in 1..Len(rest) : ~SortsBefore(proc[n], rest[i], sort, reverse)})
         IN  SubSeq(rest, 1, k) \o <<proc[n]>> \o SubSeq(rest, k + 1, Len(rest))

\* the decode percentage of a row clamped to 100
dec_usage_Clamped(usage) ==
    IF usage.dec + usage.vcn_jpeg > 100 THEN 100 ELSE usage.dec + usage.vcn_jpeg

\* let dec_usage = pu.usage.dec + pu.usage.vcn_jpeg
dec_usage(usage) == usage.dec + usage.vcn_jpeg

\* let enc_usage = pu.usage.enc + pu.usage.uvd_enc
enc_usage(usage) == usage.enc + usage.uvd_enc

\* the units and the percent sign put after a number
Mib == <<" ", "M", "i", "B">>

Percent == <<" ", "%">>

\* the cells of one row of the process table
GridRow(pu, unified) ==
    [name |-> pu.name,
     pid |-> Format(pu.pid, 8),
     vram |-> Format(pu.usage.vram_usage \div 1024, 5) \o Mib,
     gtt |-> Format(pu.usage.gtt_usage \div 1024, 5) \o Mib,
     usage |-> <<Format(pu.cpu_usage, 3) \o Percent,
                 Format(pu.usage.gfx, 3) \o Percent,
                 Format(pu.usage.compute, 3) \o Percent,
                 Format(pu.usage.dma, 3) \o Percent>>,
     media |-> IF unified THEN <<Format(pu.usage.media, 3) \o Percent>>
               ELSE <<Format(dec_usage(pu.usage), 3) \o Percent,
                      Format(enc_usage(pu.usage), 3) \o Percent>>]

\* let usage_dec = usage.dec + usage.vcn_jpeg
usage_dec(usage) == usage.dec + usage.vcn_jpeg

\* let usage_enc = usage.enc + usage.uvd_enc
usage_enc(usage) == usage.enc + usage.uvd_enc

\* the value a line takes from one point of a history: the process plot's
\* media line is drawn from usage_enc, the PCIe plot's lines from the pair
LineValue(line, v) ==
    CASE line = "gfx" -> v.gfx
      [] line = "compute" -> v.compute
      [] line = "dma" -> v.dma
      [] line = "media" -> usage_enc(v)
      [] line = "decode" -> usage_dec(v)
      [] line = "encode" -> usage_enc(v)
      [] line = "sent" -> v[1]
      [] line = "rec" -> v[2]

\* the points of one line: [i, value as f64] for every point of the history
\* (the percentages are far below 2^53: the f64 holds them exactly)
PlotLine(history, line) ==
    [k \in 1..Len(history) |-> <<history[k][1], LineValue(line, history[k][2])>>]

\* egui_fdinfo_plot: the lines drawn, by name
egui_fdinfo_plot(history, unified) ==
    LET lines == IF unified THEN {"gfx", "compute", "dma", "media"}
                 ELSE {"gfx", "compute", "dma", "decode", "encode"}
    IN  [l \in lines |-> PlotLine(history, l)]

------------------------------------------------------------------------------
(* The exchange of the collected data between the sampler and the front    *)
(* ends: arc_data: Arc<Mutex<CentralData>> and each front end's buf_data   *)

\* the fields of CentralData the views read, in the order they are copied
DataFields == <<"vram_usage", "sensors", "fdinfo">>

\* the CentralData collected at a tick: every field is of that tick
Snapshot(tick) == [f \in {DataFields[i] : i \in 1..Len(DataFields)} |-> tick]

\* the states of the Mutex: held by no thread, by the sampler, by front end r
Unlocked == [by |-> "none", id |-> 0]

HeldBySampler == [by |-> "sampler", id |-> 0]

HeldBy(r) == [by |-> "reader", id |-> r]

\* a lock that is granted while another thread holds it
MayLock_NoExclusion(m) == TRUE

\* Mutex::lock is granted when no thread holds the mutex
MayLock(m) == m = Unlocked

\* the copy of the n-th field of src into dst
CopyField(dst, src, n) == [dst EXCEPT ![DataFields[n]] = src[DataFields[n]]]

------------------------------------------------------------------------------
(* The PCIe bandwidth history and its view                                 *)

\* a push that leaves a full buffer as it is
push_KeepOldest(history, cap, t, value) ==
    IF Len(history) >= cap THEN history ELSE Append(history, <<t, value>>)

\* push(timestamp, value): appends the pair; if the length then exceeds the
\* capacity, the oldest pair is dropped
push(history, cap, t, value) ==
    LET h == Append(history, <<t, value>>)
    IN  IF Len(h) > cap THEN Tail(h) ELSE h

\* latest(): the value pushed last, or none if the buffer is empty
latest(history) ==
    IF history = <<>> THEN None ELSE Some(history[Len(history)][2])

\* fl!("mib_s")
MibS == <<"M", "i", "B", "/", "s">>

\* the two rates of the label with (0, 0) standing in for a missing pair
pcie_bw_text_ZeroDefault(last) ==
    LET v == IF last.tag = "Some" THEN last.val ELSE <<0, 0>>
    IN  [sent |-> Format(v[1], 5) \o <<" ">> \o MibS,
         rec |-> Format(v[2], 5) \o <<" ">> \o MibS]

\* the label under the plot: "{sent:5} {mib_s}" and "{rec:5} {mib_s}" of the
\* latest pair, "_ {mib_s}" twice when there is none
pcie_bw_text(last) ==
    IF last.tag = "Some"
        THEN [sent |-> Format(last.val[1], 5) \o <<" ">> \o MibS,
              rec |-> Format(last.val[2], 5) \o <<" ">> \o MibS]
        ELSE [sent |-> <<"_", " ">> \o MibS,
              rec |-> <<"_", " ">> \o MibS]

\* egui_pcie_bw: the two lines of the plot, from the pairs of the history in
\* the order of its iteration, and the label
egui_pcie_bw(history) ==
    [sent_history |-> PlotLine(history, "sent"),
     rec_history |-> PlotLine(history, "rec"),
     label |-> pcie_bw_text(latest(history))]

------------------------------------------------------------------------------
(* The sensor view and the activity row                                    *)

\* the entries of the sensor grid, in order: the field of buf_data.sensors,
\* its label, the range of its plot and its unit.  The range of the power
\* plot ends at the power cap, or at 350; the range of the fan plot at
\* fan_max_rpm, or at 6000
SensorEntries(info, sn) ==
    <<[field |-> "sclk", label |-> <<"G", "F", "X", "_", "S", "C", "L", "K">>,
       min |-> info.min_gpu_clk, max |-> info.max_gpu_clk, unit |-> <<"M", "H", "z">>],
      [field |-> "mclk", label |-> <<"G", "F", "X", "_", "M", "C", "L", "K">>,
       min |-> info.min_mem_clk, max |-> info.max_mem_clk, unit |-> <<"M", "H", "z">>],
      [field |-> "vddgfx", label |-> <<"V", "D", "D", "G", "F", "X">>,
       min |-> 500, max |-> 1500, unit |-> <<"m", "V">>],
      [field |-> "power", label |-> <<"G", "F", "X", " ", "P", "o", "w", "e", "r">>,
       min |-> 0,
       max |-> IF sn.power_cap.tag = "Some" THEN sn.power_cap.val.current ELSE 350,
       unit |-> <<"W">>],
      [field |-> "fan_rpm", label |-> <<"F", "a", "n">>,
       min |-> 0,
       max |-> IF sn.fan_max_rpm.tag = "Some" THEN sn.fan_max_rpm.val ELSE 6000,
       unit |-> <<"R", "P", "M">>]>>

\* a row that shows 0 for a value that is None
SensorRow_ZeroDefault(e, val) ==
    LET v == IF val.tag = "Some" THEN val.val ELSE 0
    IN  <<[field |-> e.field,
           text |-> e.label \o <<"\n", "(">> \o Format(v, 4) \o <<" ">> \o e.unit \o <<")">>,
           plot |-> IF e.min = e.max THEN None ELSE Some([min |-> e.min, max |-> e.max])]>>

\* the row of one entry: none when the value is None (let Some(val) = val
\* else { continue }), else the label "{label}\n({val:4} {unit})" and, unless
\* min == max, a plot of the history over the range
SensorRow(e, val) ==
    IF val.tag # "Some" THEN <<>>
    ELSE <<[field |-> e.field,
            text |-> e.label \o <<"\n", "(">> \o Format(val.val, 4) \o <<" ">> \o e.unit \o <<")">>,
            plot |-> IF e.min = e.max THEN None ELSE Some([min |-> e.min, max |-> e.max])]>>

\* the names of the temperature rows and their fields
TempEntries ==
    <<[field |-> "edge_temp", label |-> <<"E", "d", "g", "e">>],
      [field |-> "junction_temp", label |-> <<"J", "u", "n", "c", "t", "i", "o", "n">>],
      [field |-> "memory_temp", label |-> <<"M", "e", "m", "o", "r", "y">>]>>

\* the row of one temperature: none when it is None, else the label
\* "{label} Temp.\n({val:4} C)" and a plot from 0 to the critical
\* temperature, or to 105
TempRow(e, temp) ==
    IF temp.tag # "Some" THEN <<>>
    ELSE <<[field |-> e.field,
            text |-> e.label \o <<" ", "T", "e", "m", "p", ".", "\n", "(">> \o Format(temp.val.current, 4)
                       \o <<" ", "C", ")">>,
            plot |-> Some([min |-> 0,
                           max |-> IF temp.val.critical.tag = "Some"
                                       THEN temp.val.critical.val ELSE 105])]>>

\* the rows of a grid: the rows of its entries, one after the other
RECURSIVE Rows(_, _, _)
Rows(entries, values, kind) ==
    IF entries = <<>> THEN <<>>
    ELSE (IF kind = "sensor" THEN SensorRow(Head(entries), values[Head(entries).field])
          ELSE TempRow(Head(entries), values[Head(entries).field]))
         \o Rows(Tail(entries), values, kind)

\* "Gen{gen}x{width}"
LinkText(link) == <<"G", "e", "n">> \o Decimal(link.gen) \o <<"x">> \o Decimal(link.width)

\* the label of the PCIe link: none when current_link is None, else the
\* current link and, as far as they are known, the DPM links
LinkLabel(sn) ==
    IF sn.current_link.tag # "Some" THEN None
    ELSE LET min_max ==
                IF sn.min_dpm_link.tag = "Some" /\ sn.max_dpm_link.tag = "Some"
                    THEN <<" ", "(">> \o LinkText(sn.min_dpm_link.val) \o <<" ", "-", " ">>
                            \o LinkText(sn.max_dpm_link.val) \o <<")">>
                ELSE IF sn.max_dpm_link.tag = "Some"
                    THEN <<" ", "(", "M", "a", "x", " ">> \o LinkText(sn.max_dpm_link.val) \o <<")">>
                ELSE <<>>
         IN  Some(<<"P", "C", "I", "e", " ", "L", "i", "n", "k", " ", "S", "p", "e", "e", "d", " ", "=", ">", " ">> \o LinkText(sn.current_link.val)
                    \o <<" ">> \o min_max)

\* egui_sensors: the sensor grid, the temperature grid and the link label
egui_sensors(info, sn) ==
    [rows |-> Rows(SensorEntries(info, sn), sn, "sensor"),
     temps |-> Rows(TempEntries, sn, "temp"),
     link |-> LinkLabel(sn)]

\* the entries of the activity row: the field of GpuActivity and its label
ActivityEntries ==
    <<[field |-> "gfx", label |-> <<"G", "F", "X">>],
      [field |-> "umc", label |-> <<"M", "e", "m", "o", "r", "y">>],
      [field |-> "media", label |-> <<"M", "e", "d", "i", "a">>]>>

\* "{label} {val:>3}%," of a value, "{label} ___%," of None
ActivityLabel(e, val) ==
    IF val.tag = "Some" THEN e.label \o <<" ">> \o Format(val.val, 3) \o <<"%", ",">>
    ELSE e.label \o <<" ", "_", "_", "_", "%", ",">>

\* avg_activity: the labels of the row
avg_activity(activity) ==
    [i \in 1..Len(ActivityEntries) |->
        [field |-> ActivityEntries[i].field,
         text |-> ActivityLabel(ActivityEntries[i], activity[ActivityEntries[i].field])]]

------------------------------------------------------------------------------
(* Bounds and the inputs of the runs                                       *)

\* the longest run of trailing white space put after a file's content
MaxPad == 2

\* the number of distinct values a sensor query can answer
NumLevels == 2

\* the number of ticks the sampler runs for
MaxTick == 2

\* the number of front ends reading arc_data
NumReaders == 2

Readers == 1..NumReaders

\* the largest capacity a history buffer is built with
MaxCapacity == 5

\* the number of pairs pushed to a history buffer
MaxPush == 7

\* the (sent, received) rates pushed, in MiB/s
PcieRates == {<<0, 0>>, <<50, 7>>}

Pads == UNION {[1..k -> {" ", "\n"}] : k \in 0..MaxPad}

\* what may precede the body of a file handed to parse_hwmon
ParsePrefixes == {<<>>, <<"+">>, <<"-">>, <<"0">>, <<" ">>}

\* bodies: no text, numerals around 10^6 and around u32::MAX, and text that
\* is no numeral
ParseBodies == {<<>>, <<"0">>, <<"7">>,
    <<"9", "9", "9", "9", "9", "9">>,
    <<"1", "0", "0", "0", "0", "0", "0">>,
    <<"1", "5", "9", "9", "9", "9", "9", "9">>,
    <<"4", "2", "9", "4", "9", "6", "7", "2", "9", "5">>,
    <<"4", "2", "9", "4", "9", "6", "7", "2", "9", "6">>,
    <<"4", "2", "9", "4", "9", "6", "7", "3", "0", "0">>,
    <<"5", "0", "0", "0", "0", "0", "0", "0", "0", "0">>,
    <<"4", "2", "9", "4", "9", "6", "7", "2", "9", "5", "0">>,
    <<"1", "a">>, <<"1", " ", "2">>, <<"1", "\n", "2">>}

\* what may follow it: white space, or a character that is none
ParseSuffixes == Pads \cup {<<"x">>, <<"\t", "\n">>, <<"\r", "\n">>}

ParseFiles == {NoFile, Unreadable}
    \cup {TextFile(p \o b \o s) : p \in ParsePrefixes, b \in ParseBodies, s \in ParseSuffixes}

HwmonFiles == {"power1_label", "power1_cap", "power1_cap_default", "power1_cap_min",
               "power1_cap_max", "power2_cap", "power2_cap_default", "power2_cap_min",
               "power2_cap_max", "temp1_crit", "fan1_input", "fan1_max"}

EmptyDir == [n \in HwmonFiles |-> NoFile]

\* the contents of power1_label tried
LabelFiles == {NoFile, Unreadable,
    TextFile(<<"f", "a", "s", "t", "P", "P", "T">>),
    TextFile(<<"s", "l", "o", "w", "P", "P", "T">>),
    TextFile(<<"P", "P", "T">>),
    TextFile(<<"P", "P", "T", "\n">>),
    TextFile(<<"f", "a", "s", "t", "P", "P", "T", "\n">>),
    TextFile(<<"s", "l", "o", "w", "P", "P", "T", "\n">>)}

\* the contents of each power-cap file tried: one that yields no value and
\* two numerals, different from file to file
CapFiles ==
    [power1_cap |-> {NoFile, TextFile(<<"1", "5", "9", "9", "9", "9", "9", "9", "\n">>), TextFile(<<"4", "2", "9", "4", "9", "6", "7", "2", "9", "5", "\n">>)},
     power1_cap_default |-> {Unreadable, TextFile(<<"1", "0", "0", "0", "0", "0", "0", "\n">>), TextFile(<<"1", "5", "0", "0", "0", "0", "0", "0", "\n">>)},
     power1_cap_min |-> {TextFile(<<"x", "\n">>), TextFile(<<"9", "9", "9", "9", "9", "9", "\n">>), TextFile(<<"2", "0", "0", "0", "0", "0", "0", "0", "\n">>)},
     power1_cap_max |-> {TextFile(<<"4", "2", "9", "4", "9", "6", "7", "2", "9", "6", "\n">>), TextFile(<<"0", "\n">>), TextFile(<<"1", "8", "0", "0", "0", "0", "0", "0", "\n">>)},
     power2_cap |-> {NoFile, TextFile(<<"2", "5", "0", "0", "0", "0", "0", "0", "\n">>), TextFile(<<"2", "9", "9", "9", "9", "9", "9", "9">>)},
     power2_cap_default |-> {TextFile(<<"-", "1", "\n">>), TextFile(<<"2", "5", "0", "0", "0", "0", "0", "0", "\n">>), TextFile(<<"+", "3", "0", "0", "0", "0", "0", "0", "0", "\n">>)},
     power2_cap_min |-> {TextFile(<<>>), TextFile(<<"5", "0", "0", "0", "0", "0", "0", "\n">>), TextFile(<<"4", "0", "0", "0", "0", "0", "0", "0", "\n">>)},
     power2_cap_max |-> {Unreadable, TextFile(<<"3", "0", "0", "0", "0", "0", "0", "0", "\n">>), TextFile(<<"4", "2", "9", "4", "0", "0", "0", "0", "0", "0", "\n">>)}]

CapDirs ==
    {[n \in HwmonFiles |->
        IF n = "power1_label" THEN l
        ELSE IF n = "power1_cap" THEN a1
        ELSE IF n = "power1_cap_default" THEN a2
        ELSE IF n = "power1_cap_min" THEN a3
        ELSE IF n = "power1_cap_max" THEN a4
        ELSE IF n = "power2_cap" THEN b1
        ELSE IF n = "power2_cap_default" THEN b2
        ELSE IF n = "power2_cap_min" THEN b3
        ELSE IF n = "power2_cap_max" THEN b4
        ELSE NoFile] :
        l \in LabelFiles,
        a1 \in CapFiles.power1_cap, a2 \in CapFiles.power1_cap_default,
        a3 \in CapFiles.power1_cap_min, a4 \in CapFiles.power1_cap_max,
        b1 \in CapFiles.power2_cap, b2 \in CapFiles.power2_cap_default,
        b3 \in CapFiles.power2_cap_min, b4 \in CapFiles.power2_cap_max}

\* the PCI::LINK get_link_info answers at a level: the link trains down when
\* the device idles
LinkAt(level) == [gen |-> IF level = 1 THEN 1 ELSE 4, width |-> 16]

\* the value a sensor answers at a level, in the unit of the query
SensorBase == [sclk |-> 300, mclk |-> 96, vddnb |-> 700, vddgfx |-> 750,
               temp |-> 45999, power |-> 9]

SensorValue(s, level) == U32(SensorBase[s] * level)

\* the answers to the six queries when the queries in failed fail and the
\* others answer their value at level
Answers(failed, level) ==
    [s \in SensorTypes |-> IF s \in failed THEN Err ELSE Ok(SensorValue(s, level))]

\* the contents of fan1_input at a level
FanFile(level) == IF level = 1 THEN TextFile(<<"0", "\n">>)
                  ELSE TextFile(<<"1", "2", "0", "0", "\n">>)

\* the power files of a directory: none, a board with power1_* under the
\* label PPT, an APU with power2_* under the label fastPPT, and a board whose
\* power1_cap_max is missing
PowerFile(power, n) ==
    IF power = "none" THEN NoFile
    ELSE IF n = "power1_label"
        THEN (IF power = "apu" THEN TextFile(<<"f", "a", "s", "t", "P", "P", "T">>) ELSE TextFile(<<"P", "P", "T", "\n">>))
    ELSE IF n = "power1_cap_max" /\ power = "partial" THEN NoFile
    ELSE IF n \in {"power1_cap", "power2_cap"} THEN TextFile(<<"1", "5", "9", "9", "9", "9", "9", "9", "\n">>)
    ELSE IF n \in {"power1_cap_min", "power2_cap_min"} THEN TextFile(<<"5", "0", "0", "0", "0", "0", "0", "\n">>)
    ELSE TextFile(<<"2", "5", "0", "0", "0", "0", "0", "0", "\n">>)

\* the directories Sensors::new is run on: a device with no hwmon files, a
\* board with every file, a fanless APU, and a board with a malformed
\* temp1_crit and no power1_cap_max
SensorDirs ==
    {[n \in HwmonFiles |->
        IF n = "temp1_crit" THEN b.crit
        ELSE IF n = "fan1_max" THEN b.fmax
        ELSE IF n = "fan1_input" THEN b.fan
        ELSE PowerFile(b.power, n)] :
        b \in {[power |-> "none", crit |-> NoFile, fmax |-> NoFile, fan |-> NoFile],
               [power |-> "ppt", crit |-> TextFile(<<"1", "0", "0", "9", "9", "9", "\n">>),
                fmax |-> TextFile(<<"3", "3", "0", "0", "\n">>), fan |-> TextFile(<<"1", "2", "0", "0", "\n">>)],
               [power |-> "apu", crit |-> TextFile(<<"9", "5", "0", "0", "0", "\n">>),
                fmax |-> NoFile, fan |-> NoFile],
               [power |-> "partial", crit |-> TextFile(<<"n", "/", "a", "\n">>),
                fmax |-> TextFile(<<"3", "3", "0", "0", "\n">>), fan |-> TextFile(<<"0", "\n">>)]}}

\* the per-process rows of a collection pass: two processes with equal
\* VRAM, CPU, compute and decode values, three with equal CPU and compute
ProcRows ==
    {[name |-> "game", pid |-> 4100, cpu_usage |-> 1,
      usage |-> [vram_usage |-> 2097152, gtt_usage |-> 5120, gfx |-> 50, compute |-> 0,
                 dma |-> 0, dec |-> 80, vcn_jpeg |-> 60, enc |-> 0, uvd_enc |-> 0,
                 media |-> 80]],
     [name |-> "encoder", pid |-> 977, cpu_usage |-> 1,
      usage |-> [vram_usage |-> 2097152, gtt_usage |-> 7168, gfx |-> 20, compute |-> 0,
                 dma |-> 3, dec |-> 80, vcn_jpeg |-> 0, enc |-> 100, uvd_enc |-> 100,
                 media |-> 100]],
     [name |-> "desktop", pid |-> 12, cpu_usage |-> 1,
      usage |-> [vram_usage |-> 512, gtt_usage |-> 5120, gfx |-> 50, compute |-> 0,
                 dma |-> 0, dec |-> 0, vcn_jpeg |-> 100, enc |-> 40, uvd_enc |-> 30,
                 media |-> 40]]}

\* the tables: no process, or the three rows in any order
ProcTables ==
    {<<>>} \cup {t \in {<<a, b, c>> : a, b, c \in ProcRows} :
                    Cardinality({t[1], t[2], t[3]}) = 3}

\* the total usage at a tick, from the decode and encode percentages
HistoryUsage(d, j, e, u) ==
    [vram_usage |-> 0, gtt_usage |-> 0, gfx |-> 30, compute |-> 10, dma |-> 2,
     dec |-> d, vcn_jpeg |-> j, enc |-> e, uvd_enc |-> u, media |-> d + e]

\* the histories: none, one point, two points
FdinfoHistories ==
    {<<>>,
     <<<<0, HistoryUsage(0, 0, 0, 0)>>>>,
     <<<<0, HistoryUsage(80, 60, 0, 100)>>>>,
     <<<<0, HistoryUsage(100, 100, 100, 100)>>>>,
     <<<<0, HistoryUsage(0, 100, 60, 0)>>, <<1, HistoryUsage(99, 1, 100, 1)>>>>}

\* the sets of header buttons that report a click in one frame: each
\* button is tested on its own, and no more than two at once are tried
ClickSets(unified) ==
    LET buttons == {HeaderButtons(unified)[i] : i \in 1..Len(HeaderButtons(unified))}
    IN  {c \in SUBSET buttons : Cardinality(c) <= 2}

\* a value that is absent, a measured zero, or v
OptionOf(v) == {None, Some(0), Some(v)}

\* what is known of a device besides the per-tick sensors: nothing; a board
\* with power cap, fan and link; an APU whose memory clock has one level
\* (min == max) and whose fan_max_rpm reads 0
ViewDevices ==
    {[info |-> [min_gpu_clk |-> 500, max_gpu_clk |-> 2400, min_mem_clk |-> 96, max_mem_clk |-> 1000],
      power_cap |-> None, fan_max_rpm |-> None,
      edge_temp |-> None, junction_temp |-> None, memory_temp |-> None,
      current_link |-> None, min_dpm_link |-> None, max_dpm_link |-> None],
     [info |-> [min_gpu_clk |-> 500, max_gpu_clk |-> 2400, min_mem_clk |-> 96, max_mem_clk |-> 1000],
      power_cap |-> Some([type |-> "PPT", current |-> 15, default |-> 15, min |-> 0, max |-> 18]),
      fan_max_rpm |-> Some(3300),
      edge_temp |-> Some([current |-> 0, critical |-> None]),
      junction_temp |-> Some([current |-> 45, critical |-> Some(100)]),
      memory_temp |-> None,
      current_link |-> Some([gen |-> 4, width |-> 16]),
      min_dpm_link |-> Some([gen |-> 1, width |-> 16]),
      max_dpm_link |-> Some([gen |-> 4, width |-> 16])],
     [info |-> [min_gpu_clk |-> 200, max_gpu_clk |-> 1900, min_mem_clk |-> 800, max_mem_clk |-> 800],
      power_cap |-> None, fan_max_rpm |-> Some(0),
      edge_temp |-> Some([current |-> 45, critical |-> None]),
      junction_temp |-> None,
      memory_temp |-> Some([current |-> 0, critical |-> Some(90)]),
      current_link |-> Some([gen |-> 3, width |-> 8]),
      min_dpm_link |-> None,
      max_dpm_link |-> Some([gen |-> 4, width |-> 16])]}

\* the data the views are drawn from
ViewData ==
    {[info |-> d.info,
      sensors |-> [sclk |-> sclk, mclk |-> mclk, vddgfx |-> vddgfx, power |-> power,
                   fan_rpm |-> fan_rpm, power_cap |-> d.power_cap,
                   fan_max_rpm |-> d.fan_max_rpm, edge_temp |-> d.edge_temp,
                   junction_temp |-> d.junction_temp, memory_temp |-> d.memory_temp,
                   current_link |-> d.current_link, min_dpm_link |-> d.min_dpm_link,
                   max_dpm_link |-> d.max_dpm_link],
      activity |-> [gfx |-> gfx, umc |-> umc, media |-> media]] :
        d \in ViewDevices,
        sclk \in OptionOf(1200), mclk \in {None, Some(96)}, vddgfx \in {None, Some(750)},
        power \in OptionOf(9), fan_rpm \in OptionOf(1200),
        gfx \in OptionOf(100), umc \in OptionOf(37), media \in {None, Some(5)}}

\* the histories the PCIe view is drawn from: none, the rates (0, 0), others
ViewHistories == {<<>>, <<<<0, <<0, 0>>>>>>, <<<<0, <<50, 7>>>>>>}

------------------------------------------------------------------------------
(* The entry point (src/main.rs): main, device_list, from_main_opt and     *)
(* select_apu                                                              *)

\* the cargo features a build is compiled with
Builds == [json : BOOLEAN, tui : BOOLEAN, gui : BOOLEAN]

\* the AppMode variants of a build: those the match of main has an arm for
BuildModes(b) ==
    {"TUI"} \cup (IF b.gui THEN {"GUI"} ELSE {})
            \cup (IF b.json THEN {"JSON"} ELSE {})
            \cup (IF b.tui THEN {"SMI"} ELSE {})

\* the fields of MainOpt main branches on
MainOpts(b) ==
    [app_mode : BuildModes(b), dump : BOOLEAN, version : BOOLEAN,
     list : BOOLEAN, select_apu : BOOLEAN]

\* the devices a path can lead to: what init() and device_info() answer,
\* what is_apu() reports and what get_instance_number() finds.  A disabled
\* APU that does not initialize, a device that initializes and does not
\* answer, a discrete GPU, an APU.
DeviceKinds ==
    {[init |-> "Err", device_info |-> "Err", is_apu |-> TRUE, instance |-> Some(0)],
     [init |-> "Ok", device_info |-> "Err", is_apu |-> TRUE, instance |-> None],
     [init |-> "Ok", device_info |-> "Ok", is_apu |-> FALSE, instance |-> Some(0)],
     [init |-> "Ok", device_info |-> "Ok", is_apu |-> TRUE, instance |-> Some(1)]}

\* the longest device path list
MaxDevices == 3

\* the lists get_device_path_list() can answer
DevicePathLists == UNION {[1..n -> DeviceKinds] : n \in 0..MaxDevices}

\* the devices of a list on which init() succeeds, in list order
RECURSIVE Initialized(_)
Initialized(list) ==
    IF list = <<>> THEN <<>>
    ELSE IF Head(list).init = "Ok" THEN <<Head(list)>> \o Initialized(Tail(list))
    ELSE Initialized(Tail(list))

\* a variant of main that answers the version option before it looks at
\* the device path list
main_early_VersionFirst(opt, b, list) ==
    IF opt.version THEN "version"
    ELSE IF list = <<>> THEN "panic"
    ELSE IF opt.list THEN "list"
    ELSE "select"

\* main up to the selection of a device: the step it takes, "select" when
\* it goes on to select one
main_early(opt, b, list) ==
    IF list = <<>> THEN "panic"
    ELSE IF b.json /\ opt.app_mode = "JSON" /\ opt.dump THEN "dump_json"
    ELSE IF b.json /\ opt.app_mode = "JSON" /\ opt.version THEN "version_json"
    ELSE IF opt.version THEN "version"
    ELSE IF opt.list THEN "list"
    ELSE IF b.json /\ opt.app_mode = "JSON" THEN "json_run"
    ELSE "select"

\* device_list: the lines it prints, for every device that initializes and
\* has an instance number
RECURSIVE device_list(_, _)
device_list(dump_info, list) ==
    IF list = <<>> THEN <<>>
    ELSE LET d == Head(list)
             rest == device_list(dump_info, Tail(list))
         IN  IF d.init # "Ok" THEN rest
             ELSE IF d.instance = None THEN rest
             ELSE <<"#instance",
                    IF dump_info THEN "dump" ELSE "Marketing Name",
                    "device_path", "">> \o rest

\* select_apu, one turn of its loop, without the is_apu test
select_apu_turn_AnyDevice(d) ==
    IF d.init # "Ok" THEN "continue"
    ELSE IF d.device_info # "Ok" THEN "continue"
    ELSE "return"

\* select_apu, one turn of its loop on the device d: return it or go on
select_apu_turn(d) ==
    IF d.init # "Ok" THEN "continue"
    ELSE IF d.device_info # "Ok" THEN "continue"
    ELSE IF d.is_apu THEN "return"
    ELSE "continue"

\* from_main_opt for the options instance and pci_path, where d is the
\* device the path built from them leads to and fallback is what
\* DevicePath::init_with_fallback does
from_main_opt(instance, pci_path, d, fallback) ==
    IF instance = 0 /\ pci_path = None THEN fallback
    ELSE IF pci_path = Some("unparsable")
        THEN [tag |-> "Panic", stderr |-> <<"Failed to parse">>, opened |-> <<>>]
    ELSE IF pci_path = Some("no device")
        THEN [tag |-> "Panic", stderr |-> <<"err", "pci_path", "Device list">>,
              opened |-> <<>>]
    ELSE IF d.init # "Ok"
        THEN [tag |-> "Panic", stderr |-> <<"err", "device_path", "Device list">>,
              opened |-> <<>>]
    ELSE [tag |-> "Ok", dev |-> d, opened |-> <<d>>]

\* what DevicePath::init_with_fallback can do: hand out an initialized
\* device, or not return
Fallbacks ==
    {[tag |-> "Panic", stderr |-> <<>>, opened |-> <<>>]} \cup
    {[tag |-> "Ok", dev |-> d, opened |-> <<d>>] : d \in {k \in DeviceKinds : k.init = "Ok"}}

\* a variant of main that starts the front end whatever the dump option is
main_late_IgnoresDump(opt, b) ==
    IF opt.app_mode = "TUI" THEN (IF b.tui THEN "tui" ELSE "dump")
    ELSE IF opt.app_mode = "GUI" THEN "gui"
    ELSE "smi"

\* main once a device is selected: the dump, or the arm of the match on
\* app_mode (the TUI arm of a build without the tui feature dumps)
main_late(opt, b) ==
    IF opt.dump THEN "dump"
    ELSE IF opt.app_mode = "TUI" THEN (IF b.tui THEN "tui" ELSE "dump")
    ELSE IF opt.app_mode = "GUI" THEN "gui"
    ELSE IF opt.app_mode = "SMI" THEN "smi"
    ELSE "unreachable"

\* the values of the pci_path option: none, one that does not parse, one no
\* device is found for, one that leads to a device
PciPaths == {None, Some("unparsable"), Some("no device"), Some("device")}

------------------------------------------------------------------------------
(* The state machines                                                      *)

MainIdle ==
    /\ build = [json |-> TRUE, tui |-> TRUE, gui |-> TRUE]
    /\ main_opt = NotRun
    /\ device_path_list = <<>>
    /\ pc = "none"
    /\ scan = 0
    /\ selected = NotRun
    /\ stdout = <<>> /\ stderr = <<>> /\ opened = <<>> /\ actions = <<>>

ParseIdle == ph_file = NoFile /\ ph_out = NotRun

PowerCapIdle == pc_out = NotRun

SensorsIdle ==
    /\ hwmon_resolved = TRUE
    /\ link_max = LinkAt(NumLevels)
    /\ sensors = NotRun
    /\ reads = NotRun
    /\ op = "none"

SortIdle == fdinfo_sort = "VRAM" /\ reverse_sort = FALSE /\ sort_call = NotRun

FdinfoIdle ==
    /\ has_vcn_unified = FALSE
    /\ proc_usage = <<>>
    /\ fdinfo_history = <<>>
    /\ clicked = {}
    /\ unsorted = NotRun
    /\ grid = NotRun
    /\ plot = NotRun

ExchangeIdle ==
    /\ arc_data = NotRun
    /\ mutex = Unlocked
    /\ sampler = NotRun
    /\ buf_data = NotRun
    /\ reader = NotRun

HistoryIdle ==
    /\ capacity = 1
    /\ pcie_bw_history = <<>>
    /\ pushed = <<>>
    /\ pcie_bw_label = NotRun

ViewIdle ==
    /\ view_data = NotRun
    /\ sensors_view = NotRun
    /\ activity_view = NotRun

GuiIdle == FdinfoIdle /\ ExchangeIdle /\ HistoryIdle /\ ViewIdle

\* parse_hwmon applied to a file
ParseHwmon ==
    /\ ph_out = NotRun
    /\ ph_out' = parse_hwmon(ph_file)
    /\ UNCHANGED <<hwmon, ph_file, pc_out, hwmon_resolved, link_max, sensors,
                   reads, op, fdinfo_sort, reverse_sort, sort_call, guiVars, mainVars>>

ParseInit ==
    /\ ph_file \in ParseFiles
    /\ ph_out = NotRun
    /\ hwmon = EmptyDir
    /\ MainIdle
    /\ PowerCapIdle /\ SensorsIdle /\ SortIdle /\ GuiIdle

ParseNext == ParseHwmon

ParseSpec == ParseInit /\ [][ParseNext]_vars

\* PowerCap::from_hwmon_path applied to a directory
FromHwmonPath ==
    /\ pc_out = NotRun
    /\ pc_out' = from_hwmon_path(hwmon)
    /\ UNCHANGED <<hwmon, ph_file, ph_out, hwmon_resolved, link_max, sensors,
                   reads, op, fdinfo_sort, reverse_sort, sort_call, guiVars, mainVars>>

PowerCapInit ==
    /\ hwmon \in CapDirs
    /\ pc_out = NotRun
    /\ MainIdle
    /\ ParseIdle /\ SensorsIdle /\ SortIdle /\ GuiIdle

PowerCapNext == FromHwmonPath

PowerCapSpec == PowerCapInit /\ [][PowerCapNext]_vars

\* Sensors::new, once, on the directory as it is
New ==
    /\ op = "none"
    /\ \E failed \in SUBSET SensorTypes, level \in 1..NumLevels :
        LET q == Answers(failed, level)
            cur == LinkAt(level)
        IN  /\ sensors' = SensorsNew(hwmon_resolved, hwmon, q, cur, link_max)
            /\ reads' = [q |-> q, cur |-> cur]
    /\ op' = "new"
    /\ UNCHANGED <<hwmon, ph_file, ph_out, pc_out, hwmon_resolved, link_max,
                   fdinfo_sort, reverse_sort, sort_call, guiVars, mainVars>>

\* the queries the statements of Sensors::update issue, in program order:
\* the current link, the six sensor queries, the read of fan1_input
UpdateQueries ==
    <<"cur", "sclk", "mclk", "vddnb", "vddgfx", "temp", "power", "fan1_input">>

\* a variant that issues a query again when its first answer was a failure
update_queries_Retry(q, dir) ==
    UpdateQueries \o
        SelectSeq(UpdateQueries,
                  LAMBDA n : IF n = "cur" THEN FALSE
                             ELSE IF n = "fan1_input" THEN parse_hwmon(dir[n]) = None
                             ELSE q[n].tag # "Ok")

\* the queries one Sensors::update call issues when the device answers q and
\* the directory is dir: each statement runs once, .ok() and parse_hwmon turn
\* a failure into None and the next statement follows
update_queries(q, dir) == UpdateQueries

\* Sensors::update, one tick: fan is what fan1_input holds when it is read
Update ==
    /\ op \in {"new", "update"}
    /\ sensors # Panicked
    /\ \E failed \in SUBSET SensorTypes, level \in 1..NumLevels,
          fan_fails \in BOOLEAN :
        LET q == Answers(failed, level)
            cur == LinkAt(level)
            fan == IF fan_fails THEN NoFile ELSE FanFile(level)
            dir == [hwmon EXCEPT !["fan1_input"] = fan]
        IN  /\ hwmon' = dir
            /\ sensors' = SensorsUpdate(sensors, dir, q, cur)
            /\ reads' = [q |-> q, cur |-> cur, log |-> update_queries(q, dir)]
    /\ op' = "update"
    /\ UNCHANGED <<ph_file, ph_out, pc_out, hwmon_resolved, link_max,
                   fdinfo_sort, reverse_sort, sort_call, guiVars, mainVars>>

Init ==
    /\ hwmon \in SensorDirs
    /\ hwmon_resolved \in BOOLEAN
    /\ link_max = LinkAt(NumLevels)
    /\ sensors = NotRun
    /\ reads = NotRun
    /\ op = "none"
    /\ MainIdle
    /\ ParseIdle /\ PowerCapIdle /\ SortIdle /\ GuiIdle

Next == New \/ Update

Spec == Init /\ [][Next]_vars

\* a click on a column header: set_fdinfo_sort_type(sort_type)
SetFdinfoSortType ==
    \E sort_type \in FdInfoSortType :
        LET before == [fdinfo_sort |-> fdinfo_sort, reverse_sort |-> reverse_sort]
            self == set_fdinfo_sort_type(before, sort_type)
        IN  /\ fdinfo_sort' = self.fdinfo_sort
            /\ reverse_sort' = self.reverse_sort
            /\ sort_call' = [tag |-> "Call", sort_type |-> sort_type, before |-> before]
    /\ UNCHANGED <<hwmon, ph_file, ph_out, pc_out, hwmon_resolved, link_max,
                   sensors, reads, op, guiVars, mainVars>>

SortInit ==
    /\ fdinfo_sort \in FdInfoSortType
    /\ reverse_sort \in BOOLEAN
    /\ sort_call = NotRun
    /\ hwmon = EmptyDir
    /\ MainIdle
    /\ ParseIdle /\ PowerCapIdle /\ GuiIdle
    /\ hwmon_resolved = TRUE
    /\ link_max = LinkAt(NumLevels)
    /\ sensors = NotRun
    /\ reads = NotRun
    /\ op = "none"

SortNext == SetFdinfoSortType

SortSpec == SortInit /\ [][SortNext]_vars

\* one frame of egui_grid_fdinfo: the plot, the header and its clicks, the
\* sort of buf_data.fdinfo.proc_usage in place, and the rows
Frame ==
    /\ \E clicks \in ClickSets(has_vcn_unified) :
        LET before == [fdinfo_sort |-> fdinfo_sort, reverse_sort |-> reverse_sort]
            self == HeaderClicks(before, HeaderButtons(has_vcn_unified), clicks)
            sorted == sort_proc_usage(proc_usage, self.fdinfo_sort, self.reverse_sort)
        IN  /\ plot' = egui_fdinfo_plot(fdinfo_history, has_vcn_unified)
            /\ clicked' = clicks
            /\ fdinfo_sort' = self.fdinfo_sort
            /\ reverse_sort' = self.reverse_sort
            /\ unsorted' = proc_usage
            /\ proc_usage' = sorted
            /\ grid' = [i \in 1..Len(sorted) |-> GridRow(sorted[i], has_vcn_unified)]
    /\ UNCHANGED <<mainVars, sensorsVars, sort_call, has_vcn_unified, fdinfo_history,
                   exchangeVars, historyVars, viewVars>>

FdinfoInit ==
    /\ fdinfo_sort \in FdInfoSortType
    /\ reverse_sort \in BOOLEAN
    /\ sort_call = NotRun
    /\ has_vcn_unified \in BOOLEAN
    /\ proc_usage \in ProcTables
    /\ fdinfo_history \in FdinfoHistories
    /\ clicked = {}
    /\ unsorted = NotRun
    /\ grid = NotRun
    /\ plot = NotRun
    /\ hwmon = EmptyDir
    /\ MainIdle
    /\ ParseIdle /\ PowerCapIdle /\ SensorsIdle
    /\ ExchangeIdle /\ HistoryIdle /\ ViewIdle

FdinfoNext == Frame

FdinfoSpec == FdinfoInit /\ [][FdinfoNext]_vars

\* the sampler collects the data of its next tick, in its own memory
Collect ==
    /\ sampler.pc = "collect"
    /\ sampler.tick < MaxTick
    /\ sampler' = [sampler EXCEPT !.pc = "lock", !.tick = @ + 1,
                                  !.data = Snapshot(sampler.tick + 1)]
    /\ UNCHANGED <<arc_data, mutex, buf_data, reader>>
    /\ UNCHANGED <<mainVars, sensorsVars, fdinfo_sort, reverse_sort, sort_call, fdinfoVars,
                   historyVars, viewVars>>

\* the sampler takes the mutex
SamplerLock ==
    /\ sampler.pc = "lock"
    /\ MayLock(mutex)
    /\ mutex' = HeldBySampler
    /\ sampler' = [sampler EXCEPT !.pc = "write", !.n = 0]
    /\ UNCHANGED <<arc_data, buf_data, reader>>
    /\ UNCHANGED <<mainVars, sensorsVars, fdinfo_sort, reverse_sort, sort_call, fdinfoVars,
                   historyVars, viewVars>>

\* the sampler, holding the mutex, writes the next field of its data
SamplerWrite ==
    /\ sampler.pc = "write"
    /\ sampler.n < Len(DataFields)
    /\ arc_data' = CopyField(arc_data, sampler.data, sampler.n + 1)
    /\ sampler' = [sampler EXCEPT !.n = @ + 1]
    /\ UNCHANGED <<mutex, buf_data, reader>>
    /\ UNCHANGED <<mainVars, sensorsVars, fdinfo_sort, reverse_sort, sort_call, fdinfoVars,
                   historyVars, viewVars>>

\* the sampler has written every field and drops the mutex
SamplerUnlock ==
    /\ sampler.pc = "write"
    /\ sampler.n = Len(DataFields)
    /\ mutex' = Unlocked
    /\ sampler' = [sampler EXCEPT !.pc = "collect"]
    /\ UNCHANGED <<arc_data, buf_data, reader>>
    /\ UNCHANGED <<mainVars, sensorsVars, fdinfo_sort, reverse_sort, sort_call, fdinfoVars,
                   historyVars, viewVars>>

\* a front end takes the mutex at the start of a frame
ReaderLock(r) ==
    /\ reader[r].pc = "idle"
    /\ MayLock(mutex)
    /\ mutex' = HeldBy(r)
    /\ reader' = [reader EXCEPT ![r] = [pc |-> "copy", n |-> 0]]
    /\ UNCHANGED <<arc_data, sampler, buf_data>>
    /\ UNCHANGED <<mainVars, sensorsVars, fdinfo_sort, reverse_sort, sort_call, fdinfoVars,
                   historyVars, viewVars>>

\* a front end, holding the mutex, copies the next field into its buf_data
ReaderCopy(r) ==
    /\ reader[r].pc = "copy"
    /\ reader[r].n < Len(DataFields)
    /\ buf_data' = [buf_data EXCEPT ![r] = CopyField(@, arc_data, reader[r].n + 1)]
    /\ reader' = [reader EXCEPT ![r].n = @ + 1]
    /\ UNCHANGED <<arc_data, mutex, sampler>>
    /\ UNCHANGED <<mainVars, sensorsVars, fdinfo_sort, reverse_sort, sort_call, fdinfoVars,
                   historyVars, viewVars>>

\* a front end has copied every field and drops the mutex
ReaderUnlock(r) ==
    /\ reader[r].pc = "copy"
    /\ reader[r].n = Len(DataFields)
    /\ mutex' = Unlocked
    /\ reader' = [reader EXCEPT ![r].pc = "idle"]
    /\ UNCHANGED <<arc_data, sampler, buf_data>>
    /\ UNCHANGED <<mainVars, sensorsVars, fdinfo_sort, reverse_sort, sort_call, fdinfoVars,
                   historyVars, viewVars>>

ExchangeInit ==
    /\ arc_data = Snapshot(0)
    /\ mutex = Unlocked
    /\ sampler = [pc |-> "collect", tick |-> 0, data |-> Snapshot(0), n |-> 0]
    /\ buf_data = [r \in Readers |-> Snapshot(0)]
    /\ reader = [r \in Readers |-> [pc |-> "idle", n |-> 0]]
    /\ hwmon = EmptyDir
    /\ MainIdle
    /\ ParseIdle /\ PowerCapIdle /\ SensorsIdle /\ SortIdle
    /\ FdinfoIdle /\ HistoryIdle /\ ViewIdle

ExchangeNext ==
    \/ Collect
    \/ SamplerLock
    \/ SamplerWrite
    \/ SamplerUnlock
    \/ \E r \in Readers : ReaderLock(r)
    \/ \E r \in Readers : ReaderCopy(r)
    \/ \E r \in Readers : ReaderUnlock(r)

ExchangeSpec == ExchangeInit /\ [][ExchangeNext]_vars

\* the sampler pushes the rates of a tick; the timestamps count the ticks
Push ==
    /\ Len(pushed) < MaxPush
    /\ \E rate \in PcieRates :
        /\ pcie_bw_history' = push(pcie_bw_history, capacity, Len(pushed), rate)
        /\ pushed' = Append(pushed, <<Len(pushed), rate>>)
    /\ UNCHANGED <<capacity, pcie_bw_label>>
    /\ UNCHANGED <<mainVars, sensorsVars, fdinfo_sort, reverse_sort, sort_call, fdinfoVars,
                   exchangeVars, viewVars>>

\* one frame of egui_pcie_bw
ShowPcieBw ==
    /\ pcie_bw_label' = egui_pcie_bw(pcie_bw_history)
    /\ UNCHANGED <<capacity, pcie_bw_history, pushed>>
    /\ UNCHANGED <<mainVars, sensorsVars, fdinfo_sort, reverse_sort, sort_call, fdinfoVars,
                   exchangeVars, viewVars>>

HistoryInit ==
    /\ capacity \in 1..MaxCapacity
    /\ pcie_bw_history = <<>>
    /\ pushed = <<>>
    /\ pcie_bw_label = NotRun
    /\ hwmon = EmptyDir
    /\ MainIdle
    /\ ParseIdle /\ PowerCapIdle /\ SensorsIdle /\ SortIdle
    /\ FdinfoIdle /\ ExchangeIdle /\ ViewIdle

HistoryNext == Push \/ ShowPcieBw

HistorySpec == HistoryInit /\ [][HistoryNext]_vars

\* one frame of egui_sensors
ShowSensors ==
    /\ sensors_view' = egui_sensors(view_data.info, view_data.sensors)
    /\ UNCHANGED <<view_data, activity_view>>
    /\ UNCHANGED <<mainVars, sensorsVars, fdinfo_sort, reverse_sort, sort_call, fdinfoVars,
                   exchangeVars, historyVars>>

\* one frame of avg_activity
ShowActivity ==
    /\ activity_view' = avg_activity(view_data.activity)
    /\ UNCHANGED <<view_data, sensors_view>>
    /\ UNCHANGED <<mainVars, sensorsVars, fdinfo_sort, reverse_sort, sort_call, fdinfoVars,
                   exchangeVars, historyVars>>

ViewInit ==
    /\ view_data \in ViewData
    /\ sensors_view = NotRun
    /\ activity_view = NotRun
    /\ capacity = 1
    /\ pcie_bw_history \in ViewHistories
    /\ pushed = pcie_bw_history
    /\ pcie_bw_label = NotRun
    /\ hwmon = EmptyDir
    /\ MainIdle
    /\ ParseIdle /\ PowerCapIdle /\ SensorsIdle /\ SortIdle
    /\ FdinfoIdle /\ ExchangeIdle

ViewNext == ShowSensors \/ ShowActivity \/ ShowPcieBw

ViewSpec == ViewInit /\ [][ViewNext]_vars

\* main from its first statement to the selection of a device: the panic
\* on an empty list, or the first of the early returns whose test holds
MainStart ==
    /\ pc = "main"
    /\ LET step == main_early(main_opt, build, device_path_list)
       IN  /\ pc' = IF step = "panic" THEN "panicked"
                    ELSE IF step # "select" THEN "done"
                    ELSE IF main_opt.select_apu THEN "select_apu"
                    ELSE "from_main_opt"
           /\ scan' = IF step = "select" /\ main_opt.select_apu THEN 1 ELSE scan
           /\ stderr' = IF step = "panic"
                            THEN <<"There are no the AMD GPU devices found.">>
                        ELSE stderr
           /\ stdout' = IF step = "version" THEN <<"TITLE">>
                        ELSE IF step = "list"
                            THEN device_list(main_opt.dump, device_path_list)
                        ELSE IF step \in {"dump_json", "version_json"} THEN <<step>>
                        ELSE stdout
           /\ opened' = IF step = "list" THEN Initialized(device_path_list)
                        ELSE opened
           /\ actions' = IF step \in {"panic", "select"} THEN actions
                         ELSE Append(actions, step)
    /\ UNCHANGED <<build, main_opt, device_path_list, selected>>
    /\ UNCHANGED <<sensorsVars, fdinfo_sort, reverse_sort, sort_call, guiVars>>

\* select_apu, one turn of its loop
SelectApuTurn ==
    /\ pc = "select_apu"
    /\ scan <= Len(device_path_list)
    /\ LET d == device_path_list[scan]
       IN  /\ opened' = IF d.init = "Ok" THEN Append(opened, d) ELSE opened
           /\ IF select_apu_turn(d) = "return"
                  THEN /\ selected' = [index |-> scan, dev |-> d]
                       /\ pc' = "selected"
                       /\ scan' = scan
                  ELSE /\ scan' = scan + 1
                       /\ UNCHANGED <<selected, pc>>
    /\ UNCHANGED <<build, main_opt, device_path_list, stdout, stderr, actions>>
    /\ UNCHANGED <<sensorsVars, fdinfo_sort, reverse_sort, sort_call, guiVars>>

\* select_apu past the end of its loop
SelectApuNone ==
    /\ pc = "select_apu"
    /\ scan > Len(device_path_list)
    /\ stderr' = Append(stderr, "The APU device is not installed or disabled.")
    /\ pc' = "panicked"
    /\ UNCHANGED <<build, main_opt, device_path_list, scan, selected, stdout,
                   opened, actions>>
    /\ UNCHANGED <<sensorsVars, fdinfo_sort, reverse_sort, sort_call, guiVars>>

\* from_main_opt; a selected device that is not taken from the list by
\* position has index 0
FromMainOpt ==
    /\ pc = "from_main_opt"
    /\ \E instance \in {0, 1}, pci_path \in PciPaths, d \in DeviceKinds,
          fallback \in Fallbacks :
        LET r == from_main_opt(instance, pci_path, d, fallback)
        IN  /\ pc' = IF r.tag = "Ok" THEN "selected" ELSE "panicked"
            /\ selected' = IF r.tag = "Ok" THEN [index |-> 0, dev |-> r.dev]
                           ELSE selected
            /\ stderr' = IF r.tag = "Ok" THEN stderr ELSE stderr \o r.stderr
            /\ opened' = opened \o r.opened
    /\ UNCHANGED <<build, main_opt, device_path_list, scan, stdout, actions>>
    /\ UNCHANGED <<sensorsVars, fdinfo_sort, reverse_sort, sort_call, guiVars>>

\* main once a device is selected
MainFinish ==
    /\ pc = "selected"
    /\ LET step == main_late(main_opt, build)
       IN  /\ pc' = IF step = "unreachable" THEN "panicked" ELSE "done"
           /\ actions' = IF step = "unreachable" THEN actions
                         ELSE Append(actions, step)
           /\ stdout' = IF step = "dump" THEN Append(stdout, "dump") ELSE stdout
           /\ stderr' = IF step = "dump" /\ ~main_opt.dump
                            THEN Append(stderr,
                                     "\"tui\" feature is not enabled for this build.")
                        ELSE stderr
    /\ UNCHANGED <<build, main_opt, device_path_list, scan, selected, opened>>
    /\ UNCHANGED <<sensorsVars, fdinfo_sort, reverse_sort, sort_call, guiVars>>

MainInit ==
    /\ build \in Builds
    /\ main_opt \in MainOpts(build)
    /\ device_path_list \in DevicePathLists
    /\ pc = "main"
    /\ scan = 0
    /\ selected = NotRun
    /\ stdout = <<>> /\ stderr = <<>> /\ opened = <<>> /\ actions = <<>>
    /\ hwmon = EmptyDir
    /\ ParseIdle /\ PowerCapIdle /\ SensorsIdle /\ SortIdle /\ GuiIdle

MainNext ==
    MainStart \/ SelectApuTurn \/ SelectApuNone \/ FromMainOpt \/ MainFinish

MainSpec == MainInit /\ [][MainNext]_vars

------------------------------------------------------------------------------
(* What the claims speak of, stated on the decimal text of the files and    *)
(* independently of the operators above                                    *)

\* the text left when all trailing white space is removed
Trimmed(t) ==
    LET k == CHOOSE k \in 0..Len(t) :
                 /\ k = 0 \/ ~IsWhitespace(t[k])
                 /\ \A j \in (k + 1)..Len(t) : IsWhitespace(t[j])
    IN  SubSeq(t, 1, k)

AllDigits(t) == t # <<>> /\ \A i \in 1..Len(t) : IsDigit(t[i])

\* the digits of a numeral: an optional "+" then one or more decimal digits
NumeralDigits(t) == IF t # <<>> /\ t[1] = "+" THEN Tail(t) ELSE t

\* the digits from the first one that is not 0 on
Significant(t) ==
    LET nz == {i \in 1..Len(t) : t[i] # "0"}
    IN  IF nz = {} THEN <<>>
        ELSE SubSeq(t, CHOOSE i \in nz : \A j \in nz : i <= j, Len(t))

\* the number a string of at most nine digits writes
RECURSIVE DecVal(_)
DecVal(t) == IF t = <<>> THEN 0
             ELSE DecVal(SubSeq(t, 1, Len(t) - 1)) * 10 + DigitVal(t[Len(t)])

\* a number as [mil, rest], mil * 10^6 + rest with rest < 10^6
DecMillions(g) ==
    IF Len(g) <= 6 THEN [mil |-> 0, rest |-> DecVal(g)]
    ELSE [mil |-> DecVal(SubSeq(g, 1, Len(g) - 6)),
          rest |-> DecVal(SubSeq(g, Len(g) - 5, Len(g)))]

\* whether digits write a number that is at most u32::MAX = 4294 967295
FitsU32Dec(digits) ==
    LET g == Significant(digits)
        m == DecMillions(g)
    IN  /\ Len(g) <= 10
        /\ m.mil < 4294 \/ (m.mil = 4294 /\ m.rest <= 967295)

\* m times k, for k <= 256
MulSmall(m, k) == [mil |-> m.mil * k + ((m.rest * k) \div 1000000),
                   rest |-> (m.rest * k) % 1000000]

\* the u32 x as [mil, rest]
ToMillions(x) ==
    LET a == MulSmall(MulSmall([mil |-> 0, rest |-> x.hi], 256), 256)
        r == a.rest + x.lo
    IN  [mil |-> a.mil + (r \div 1000000), rest |-> r % 1000000]

\* whether a file holds, before its trailing white space, a numeral that
\* fits a u32
HoldsU32(f) ==
    /\ f.kind = "text"
    /\ AllDigits(NumeralDigits(Trimmed(f.text)))
    /\ FitsU32Dec(NumeralDigits(Trimmed(f.text)))

\* the number such a file holds
HeldNumber(f) == DecMillions(Significant(NumeralDigits(Trimmed(f.text))))

\* whether a file is a decimal integer that fits a u32 (a "+" before it
\* granted), followed by at most one newline
StrictU32File(f) ==
    /\ f.kind = "text"
    /\ LET t == f.text
           d == IF t # <<>> /\ t[Len(t)] = "\n" THEN SubSeq(t, 1, Len(t) - 1) ELSE t
       IN  AllDigits(NumeralDigits(d)) /\ FitsU32Dec(NumeralDigits(d))

\* the label's text, when power1_label can be read
LabelText(dir) == dir["power1_label"].text

IsFast(t) == t = <<"f", "a", "s", "t", "P", "P", "T">>

IsSlow(t) == t = <<"s", "l", "o", "w", "P", "P", "T">>

\* the watts a cap file stands for: its number of microwatts without its last
\* six decimal digits
FileWatts(f) == U32(HeldNumber(f).mil)

\* the PowerCap of a tag and of the four files of a group
CapOfGroup(tag, dir, names) ==
    [type_ |-> tag,
     current |-> FileWatts(dir[names[1]]),
     default |-> FileWatts(dir[names[2]]),
     min |-> FileWatts(dir[names[3]]),
     max |-> FileWatts(dir[names[4]])]

------------------------------------------------------------------------------
(* The claims                                                              *)

\* C1: a set_fdinfo_sort_type call with the key that is already active flips
\* reverse_sort and keeps the key; a call with another key sets reverse_sort
\* to FALSE and makes the requested key the active key.
C1_SortToggle ==
    sort_call # NotRun =>
        IF sort_call.sort_type = sort_call.before.fdinfo_sort
        THEN /\ fdinfo_sort = sort_call.before.fdinfo_sort
             /\ reverse_sort = ~sort_call.before.reverse_sort
        ELSE /\ fdinfo_sort = sort_call.sort_type
             /\ reverse_sort = FALSE

\* a second call on the active key has turned an ascending sort descending
C1_Witness ==
    /\ sort_call # NotRun
    /\ sort_call.sort_type = "VRAM"
    /\ sort_call.before = [fdinfo_sort |-> "VRAM", reverse_sort |-> FALSE]
    /\ reverse_sort = TRUE

\* C2: with power1_label readable, the content "fastPPT" selects the power2_*
\* files and the tag FastPPT, "slowPPT" the power2_* files and the tag
\* SlowPPT, any other content the power1_* files and the tag PPT; a PowerCap
\* that is returned holds the values of the selected group's files, and None
\* is returned only when a file of the selected group yields no value.
C2_GroupByLabel ==
    (pc_out # NotRun /\ hwmon["power1_label"].kind = "text") =>
        LET t == LabelText(hwmon)
            tag == IF IsFast(t) THEN "FastPPT" ELSE IF IsSlow(t) THEN "SlowPPT" ELSE "PPT"
            names == IF IsFast(t) \/ IsSlow(t) THEN Power2Names ELSE Power1Names
        IN  IF \A i \in 1..4 : HoldsU32(hwmon[names[i]])
            THEN pc_out = Some(CapOfGroup(tag, hwmon, names))
            ELSE pc_out = None

\* the label fastPPT gave a FastPPT cap from power2_* while power1_cap is absent
C2_Witness ==
    /\ pc_out # NotRun /\ pc_out # None
    /\ pc_out.val.type_ = "FastPPT"
    /\ hwmon["power1_cap"] = NoFile
    /\ pc_out.val.current = U32(25)

C4_AllOrNothing ==
    (pc_out # NotRun /\ hwmon["power1_label"].kind = "text") =>
        LET names == IF IsFast(LabelText(hwmon)) \/ IsSlow(LabelText(hwmon))
                     THEN Power2Names ELSE Power1Names
            bad == {i \in 1..4 : ~HoldsU32(hwmon[names[i]])}
        IN  /\ (pc_out = None) <=> (bad # {})
            /\ pc_out # None =>
                   /\ DOMAIN pc_out.val = {"type_", "current", "default", "min", "max"}
                   /\ <<pc_out.val.current, pc_out.val.default, pc_out.val.min,
                        pc_out.val.max>> = [i \in 1..4 |-> FileWatts(hwmon[names[i]])]

\* three power1_* files parse, power1_cap_max does not, and nothing is returned
C4_Witness ==
    /\ pc_out = None
    /\ hwmon["power1_label"].kind = "text"
    /\ ~IsFast(LabelText(hwmon)) /\ ~IsSlow(LabelText(hwmon))
    /\ \A i \in 1..3 : HoldsU32(hwmon[Power1Names[i]])
    /\ ~HoldsU32(hwmon["power1_cap_max"])

\* the per-tick fields a sensor query fills
PerTickFields == SensorTypes \cup {"fan_rpm"}

\* whether the read behind a per-tick field failed in the last call
ReadFailed(f) ==
    IF f = "fan_rpm" THEN ~HoldsU32(hwmon["fan1_input"]) ELSE reads.q[f].tag # "Ok"

\* the natural number a u32 below 2^31 stands for
NatOf(x) == x.hi * 65536 + x.lo

\* the field a successful read fills: the answer, GPU_TEMP in whole degrees,
\* fan_rpm the number fan1_input holds
FieldRead(f) ==
    IF f = "fan_rpm"
        THEN [mil |-> HeldNumber(hwmon["fan1_input"]).mil,
              rest |-> HeldNumber(hwmon["fan1_input"]).rest]
    ELSE IF f = "temp" THEN ToMillions(U32(NatOf(reads.q[f].val) \div 1000))
    ELSE ToMillions(reads.q[f].val)

C6_IndependentReads ==
    (op # "none" /\ sensors # Panicked) =>
        /\ sensors.cur = reads.cur
        /\ \A f \in PerTickFields :
              IF ReadFailed(f) THEN sensors[f] = None
              ELSE sensors[f] # None /\ ToMillions(sensors[f].val) = FieldRead(f)

\* an update in which GPU_TEMP and fan1_input failed and the other five
\* queries answered their values of level 2
C6_Witness ==
    /\ op = "update"
    /\ reads.q["temp"] = Err /\ sensors.temp = None
    /\ sensors.fan_rpm = None
    /\ \A s \in SensorTypes \ {"temp"} : sensors[s] = Some(SensorValue(s, 2))

\* C7: a Sensors::update call leaves hwmon_path, bus_info, the max link,
\* critical_temp, power_cap and fan_max_rpm as they were.
C7_UpdateKeepsCapabilities ==
    [][op' = "update" =>
        /\ sensors'.hwmon_path = sensors.hwmon_path
        /\ sensors'.bus_info = sensors.bus_info
        /\ sensors'.max = sensors.max
        /\ sensors'.critical_temp = sensors.critical_temp
        /\ sensors'.power_cap = sensors.power_cap
        /\ sensors'.fan_max_rpm = sensors.fan_max_rpm]_vars

\* after an update that read another link and no fan speed, the capability
\* fields discovered on the board with every file are all there
C7_Witness ==
    /\ op = "update"
    /\ sensors.power_cap # None /\ sensors.power_cap.val.type_ = "PPT"
    /\ sensors.critical_temp = Some(U32(100))
    /\ sensors.fan_max_rpm = Some(U32(3300))
    /\ sensors.max = link_max /\ sensors.cur # sensors.max
    /\ sensors.fan_rpm = None

\* C8, as claimed: Sensors::new returns a Sensors value, with None for what
\* is absent, also when no hwmon directory is found for the PCI bus.
C8_NewNeverPanics ==
    (op # "none") =>
        /\ sensors # Panicked
        /\ ~hwmon_resolved =>
              /\ sensors.critical_temp = None
              /\ sensors.power_cap = None
              /\ sensors.fan_rpm = None
              /\ sensors.fan_max_rpm = None

\* C9: each of the four values of a returned PowerCap is the number of
\* microwatts its file holds divided by 1,000,000 and truncated; it is at
\* most 4294, the quotient of u32::MAX.
C9_WattsTruncate ==
    (pc_out # NotRun /\ pc_out # None) =>
        LET names == IF pc_out.val.type_ = "PPT" THEN Power1Names ELSE Power2Names
            got == <<pc_out.val.current, pc_out.val.default, pc_out.val.min,
                     pc_out.val.max>>
        IN  \A i \in 1..4 :
               LET raw == HeldNumber(hwmon[names[i]])
               IN  /\ raw.rest \in 0..999999
                   /\ got[i].hi = 0
                   /\ got[i].lo = raw.mil
                   /\ got[i].lo <= 4294

\* u32::MAX microwatts came out as 4294 W, 999999 as 0 W and 1000000 as 1 W
C9_Witness ==
    /\ pc_out # NotRun /\ pc_out # None
    /\ hwmon["power1_cap"].text = <<"4", "2", "9", "4", "9", "6", "7", "2", "9", "5", "\n">>
    /\ pc_out.val.current = U32(4294)
    /\ pc_out.val.default = U32(1)
    /\ pc_out.val.min = U32(0)

\* C10, as claimed: parse_hwmon yields Some(n) exactly when the content is
\* the decimal integer n, fitting a u32, followed by an optional newline, and
\* None otherwise.
C10_SomeIffIntegerAndNewline ==
    (ph_out # NotRun) =>
        /\ (ph_out # None) <=> StrictU32File(ph_file)
        /\ ph_out # None => ToMillions(ph_out.val) = HeldNumber(ph_file)

\* C10, amended: parse_hwmon yields Some(n) exactly when the file is readable
\* and its content, with all trailing white space removed (any run of
\* spaces, tabs, carriage returns and newlines), is an optional "+" followed
\* by one or more decimal digits that write n <= u32::MAX; in every other
\* case (absent, unreadable, empty, other characters, too large) it yields None.
C10_SomeIffTrimmedNumeral ==
    (ph_out # NotRun) =>
        /\ ph_out.tag \in {"None", "Some"}
        /\ (ph_out # None) <=> HoldsU32(ph_file)
        /\ ph_out # None => ToMillions(ph_out.val) = HeldNumber(ph_file)

\* "+4294967295" followed by a space and a newline parsed to u32::MAX
C10_Witness ==
    /\ ph_file = TextFile(<<"+", "4", "2", "9", "4", "9", "6", "7", "2", "9", "5", " ", "\n">>)
    /\ ph_out = Some([hi |-> 65535, lo |-> 65535])

\* the number a cell shows: the value of its decimal digits
ShownNumber(cell) == DecVal(SelectSeq(cell, IsDigit))

\* the place of a row in a table
PositionIn(table, row) == CHOOSE i \in 1..Len(table) : table[i] = row

\* C11: on hardware with split decode and encode engines, the decode value
\* shown in a process row and at a history point is dec + vcn_jpeg and the
\* encode value is enc + uvd_enc, whatever the percentages; the sums are
\* not clamped to 100.
C11_SplitEnginesSum ==
    (grid # NotRun /\ ~has_vcn_unified) =>
        /\ Len(grid) = Len(proc_usage)
        /\ \A i \in 1..Len(grid) :
            /\ Len(grid[i].media) = 2
            /\ ShownNumber(grid[i].media[1])
                 = proc_usage[i].usage.dec + proc_usage[i].usage.vcn_jpeg
            /\ ShownNumber(grid[i].media[2])
                 = proc_usage[i].usage.enc + proc_usage[i].usage.uvd_enc
        /\ DOMAIN plot = {"gfx", "compute", "dma", "decode", "encode"}
        /\ Len(plot["decode"]) = Len(fdinfo_history)
        /\ Len(plot["encode"]) = Len(fdinfo_history)
        /\ \A k \in 1..Len(fdinfo_history) :
            LET t == fdinfo_history[k][1]
                u == fdinfo_history[k][2]
            IN  /\ plot["decode"][k] = <<t, u.dec + u.vcn_jpeg>>
                /\ plot["encode"][k] = <<t, u.enc + u.uvd_enc>>

\* a frame on split engines showed a row with decode 140 % (80 + 60) and
\* plotted an encode point of 200
C11_Witness ==
    /\ grid # NotRun
    /\ ~has_vcn_unified
    /\ \E i \in 1..Len(grid) :
        /\ proc_usage[i].usage.dec = 80
        /\ proc_usage[i].usage.vcn_jpeg = 60
        /\ grid[i].media[1] = <<"1", "4", "0", " ", "%">>
    /\ \E k \in 1..Len(fdinfo_history) : plot["encode"][k][2] = 200

\* C15: the sort of the process table is stable for every key and both
\* directions: two rows with equal value of the active key keep the
\* relative order they had before the sort.
C15_StableSort ==
    unsorted # NotRun =>
        /\ Len(proc_usage) = Len(unsorted)
        /\ \A i \in 1..Len(unsorted) : \E j \in 1..Len(proc_usage) : proc_usage[j] = unsorted[i]
        /\ \A i, j \in 1..Len(unsorted) :
            (i < j /\ SortKey(unsorted[i], fdinfo_sort) = SortKey(unsorted[j], fdinfo_sort))
                => PositionIn(proc_usage, unsorted[i]) < PositionIn(proc_usage, unsorted[j])

\* a descending sort moved a row while two rows with equal key stayed in order
C15_Witness ==
    /\ unsorted # NotRun
    /\ reverse_sort
    /\ proc_usage # unsorted
    /\ \E i, j \in 1..Len(unsorted) :
        /\ i < j
        /\ SortKey(unsorted[i], fdinfo_sort) = SortKey(unsorted[j], fdinfo_sort)
        /\ \E k \in 1..Len(unsorted) :
            SortKey(unsorted[k], fdinfo_sort) # SortKey(unsorted[i], fdinfo_sort)

\* the keys a header button selects
ColumnKeys == {"VRAM", "GTT", "CPU", "GFX", "Compute", "DMA", "Decode", "Encode"}

\* C20: a frame changes the active sort key only to one of VRAM, GTT, CPU,
\* GFX, Compute, DMA, Decode, Encode (never to name or pid); on
\* unified-media hardware a click never selects Decode, and the media column
\* selects Encode; a frame without a click leaves key and direction unchanged.
C20_ClickSelectsColumnKey ==
    [][/\ fdinfo_sort' # fdinfo_sort => fdinfo_sort' \in ColumnKeys
       /\ clicked' # {} => fdinfo_sort' \in ColumnKeys
       /\ (has_vcn_unified /\ fdinfo_sort' = "Decode") => (fdinfo_sort = "Decode" /\ clicked' = {})
       /\ "media" \in clicked' => fdinfo_sort' = "Encode"
       /\ clicked' = {} => (fdinfo_sort' = fdinfo_sort /\ reverse_sort' = reverse_sort)]_vars

\* on unified-media hardware the media column was clicked and Encode is the key
C20_Witness ==
    /\ has_vcn_unified
    /\ "media" \in clicked
    /\ fdinfo_sort = "Encode"
    /\ unsorted # NotRun

\* the tick of the newest snapshot the sampler has published completely
Published == IF sampler.pc = "collect" THEN sampler.tick ELSE sampler.tick - 1

\* C12: under any interleaving of the sampler publishing and the front ends
\* copying arc_data into buf_data, every read yields fields of one tick: a
\* copy under way has read fields of the newest complete snapshot only (the
\* previous one while the sampler prepares or awaits its publication), and
\* a finished copy is one complete snapshot, never a mix of two ticks.
C12_ReadsAreWholeSnapshots ==
    \A r \in Readers :
        /\ reader[r].pc = "copy" =>
            \A i \in 1..reader[r].n : buf_data[r][DataFields[i]] = Published
        /\ reader[r].pc = "idle" =>
            /\ \A i, j \in 1..Len(DataFields) :
                buf_data[r][DataFields[i]] = buf_data[r][DataFields[j]]
            /\ buf_data[r][DataFields[1]] <= Published

\* a front end holds the complete snapshot of tick 1 while the sampler
\* awaits the mutex with the data of tick 2 and another front end copies
C12_Witness ==
    /\ sampler.pc = "lock"
    /\ sampler.tick = 2
    /\ \E r, q \in Readers :
        /\ reader[r].pc = "idle"
        /\ buf_data[r] = Snapshot(1)
        /\ reader[q].pc = "copy"
        /\ reader[q].n > 0
        /\ mutex = HeldBy(q)

\* the smaller of two numbers
Smaller(a, b) == IF a < b THEN a ELSE b

\* C13: for every capacity C and every sequence of N pushes the history
\* buffer holds min(N, C) pairs; they are the last pairs pushed, oldest
\* first, in the order of their insertion.
C13_LastPairsInOrder ==
    LET n == Len(pushed)
        k == Smaller(n, capacity)
    IN  /\ Len(pcie_bw_history) = k
        /\ \A i \in 1..k : pcie_bw_history[i] = pushed[n - k + i]

\* capacity 5 and the timestamps 0..6 left the timestamps 2, 3, 4, 5, 6
C13_Witness ==
    /\ capacity = 5
    /\ Len(pushed) = 7
    /\ [i \in 1..Len(pcie_bw_history) |-> pcie_bw_history[i][1]] = <<2, 3, 4, 5, 6>>

\* whether a text shows a number
ShowsNumber(text) == \E i \in 1..Len(text) : IsDigit(text[i])

\* the label egui_pcie_bw shows for the rates (0, 0)
ZeroRates ==
    [sent |-> <<" ", " ", " ", " ", "0", " ", "M", "i", "B", "/", "s">>,
     rec |-> <<" ", " ", " ", " ", "0", " ", "M", "i", "B", "/", "s">>]

\* C14: a frame drawn before any pair was pushed reports "no data yet": a
\* label without a number, different from the label of the rates (0, 0);
\* a frame drawn after a push reports the pair pushed last.
C14_NoDataIsNotZero ==
    [][pushed' = pushed =>
        IF pushed = <<>>
            THEN /\ ~ShowsNumber(pcie_bw_label'.label.sent)
                 /\ ~ShowsNumber(pcie_bw_label'.label.rec)
                 /\ pcie_bw_label'.label # ZeroRates
            ELSE /\ latest(pcie_bw_history) = Some(pushed[Len(pushed)][2])
                 /\ ShowsNumber(pcie_bw_label'.label.sent)
                 /\ ShowsNumber(pcie_bw_label'.label.rec)
                 /\ ShownNumber(pcie_bw_label'.label.sent) = pushed[Len(pushed)][2][1]
                 /\ ShownNumber(pcie_bw_label'.label.rec) = pushed[Len(pushed)][2][2]]_vars

\* a frame drawn before the first push shows "_ MiB/s" twice
C14_Witness ==
    /\ pushed = <<>>
    /\ pcie_bw_label # NotRun
    /\ pcie_bw_label.label.sent = <<"_", " ", "M", "i", "B", "/", "s">>
    /\ pcie_bw_label.label.rec = <<"_", " ", "M", "i", "B", "/", "s">>

\* the rows of a grid that show a field
RowsOf(rows, f) == {i \in 1..Len(rows) : rows[i].field = f}

\* C16: in the sensor, activity and PCIe views a value that is None is never
\* shown as a number: its row is left out, or its place holds a placeholder
\* without a digit; a value that is present is shown as its own number, so a
\* measured 0 and an absent value never look the same.
C16_AbsentIsNeverANumber ==
    /\ sensors_view # NotRun =>
        /\ \A f \in {"sclk", "mclk", "vddgfx", "power", "fan_rpm"} :
            IF view_data.sensors[f] = None
                THEN RowsOf(sensors_view.rows, f) = {}
                ELSE /\ Cardinality(RowsOf(sensors_view.rows, f)) = 1
                     /\ \A i \in RowsOf(sensors_view.rows, f) :
                            /\ ShowsNumber(sensors_view.rows[i].text)
                            /\ ShownNumber(sensors_view.rows[i].text) = view_data.sensors[f].val
        /\ \A f \in {"edge_temp", "junction_temp", "memory_temp"} :
            IF view_data.sensors[f] = None
                THEN RowsOf(sensors_view.temps, f) = {}
                ELSE /\ Cardinality(RowsOf(sensors_view.temps, f)) = 1
                     /\ \A i \in RowsOf(sensors_view.temps, f) :
                            /\ ShowsNumber(sensors_view.temps[i].text)
                            /\ ShownNumber(sensors_view.temps[i].text)
                                 = view_data.sensors[f].val.current
        /\ \A i \in 1..Len(sensors_view.rows) :
            sensors_view.rows[i].field \in {"sclk", "mclk", "vddgfx", "power", "fan_rpm"}
        /\ view_data.sensors.current_link = None => sensors_view.link = None
    /\ activity_view # NotRun =>
        /\ {activity_view[i].field : i \in 1..Len(activity_view)} = {"gfx", "umc", "media"}
        /\ \A i \in 1..Len(activity_view) :
            LET val == view_data.activity[activity_view[i].field]
            IN  IF val = None THEN ~ShowsNumber(activity_view[i].text)
                ELSE /\ ShowsNumber(activity_view[i].text)
                     /\ ShownNumber(activity_view[i].text) = val.val
    /\ pcie_bw_label # NotRun =>
        IF pcie_bw_history = <<>>
            THEN /\ ~ShowsNumber(pcie_bw_label.label.sent)
                 /\ ~ShowsNumber(pcie_bw_label.label.rec)
            ELSE /\ ShowsNumber(pcie_bw_label.label.sent)
                 /\ ShowsNumber(pcie_bw_label.label.rec)

\* the three views are drawn from data with an absent clock beside a power
\* of 0 W, an absent activity beside one of 0 %, and no PCIe rates
C16_Witness ==
    /\ sensors_view # NotRun
    /\ activity_view # NotRun
    /\ pcie_bw_label # NotRun
    /\ view_data.sensors.sclk = None
    /\ view_data.sensors.power = Some(0)
    /\ view_data.sensors.power_cap = None
    /\ view_data.activity.gfx = None
    /\ view_data.activity.umc = Some(0)
    /\ pcie_bw_history = <<>>
    /\ Len(sensors_view.rows) > 0

\* the whole watts the four files of a group stand for
GroupWatts(dir, names) == [i \in 1..4 |-> HeldNumber(dir[names[i]]).mil]

\* C17: from_hwmon_path does not assume min <= current <= max: when the four
\* files of the selected group parse to values that break that order, it
\* still returns Some, with each value as read and in its own field.
C17_NoOrderAssumed ==
    (pc_out # NotRun /\ hwmon["power1_label"].kind = "text") =>
        LET names == IF IsFast(LabelText(hwmon)) \/ IsSlow(LabelText(hwmon))
                     THEN Power2Names ELSE Power1Names
            w == GroupWatts(hwmon, names)
        IN  ((\A i \in 1..4 : HoldsU32(hwmon[names[i]])) /\ ~(w[3] <= w[1] /\ w[1] <= w[4]))
                => /\ pc_out.tag = "Some"
                   /\ NatOf(pc_out.val.current) = w[1]
                   /\ NatOf(pc_out.val.default) = w[2]
                   /\ NatOf(pc_out.val.min) = w[3]
                   /\ NatOf(pc_out.val.max) = w[4]

\* a PowerCap was returned with min 20 W above max 0 W and current 15 W
\* below min
C17_Witness ==
    /\ pc_out # NotRun /\ pc_out # None
    /\ pc_out.val.type_ = "PPT"
    /\ NatOf(pc_out.val.min) = 20
    /\ NatOf(pc_out.val.max) = 0
    /\ NatOf(pc_out.val.current) = 15

\* a text without the one newline that may end it
WithoutNewline(t) ==
    IF t # <<>> /\ t[Len(t)] = "\n" THEN SubSeq(t, 1, Len(t) - 1) ELSE t

\* C18: the classification is the same with and without the newline that
\* ends the label file: "fastPPT" or "slowPPT" followed by a newline gives
\* FastPPT or SlowPPT and the power2_* files, as the bare content does.
C18_NewlineLabelSameClass ==
    (/\ pc_out # NotRun
     /\ hwmon["power1_label"].kind = "text"
     /\ IsFast(WithoutNewline(LabelText(hwmon))) \/ IsSlow(WithoutNewline(LabelText(hwmon))))
        => LET tag == IF IsFast(WithoutNewline(LabelText(hwmon))) THEN "FastPPT" ELSE "SlowPPT"
           IN  IF \A i \in 1..4 : HoldsU32(hwmon[Power2Names[i]])
               THEN pc_out = Some(CapOfGroup(tag, hwmon, Power2Names))
               ELSE pc_out = None

\* the number of times a query appears among the queries of the last call
TimesIssued(n) == Cardinality({i \in 1..Len(reads.log) : reads.log[i] = n})

C21_EmptyListPanicsFirst ==
    (device_path_list = <<>> /\ pc # "none") =>
        /\ stdout = <<>>
        /\ opened = <<>>
        /\ selected = NotRun
        /\ actions = <<>>
        /\ pc \in {"main", "panicked"}
        /\ pc = "panicked" => Len(stderr) = 1

\* main has panicked on an empty list with the version, list and dump
\* options all set
C21_Witness ==
    /\ device_path_list = <<>>
    /\ pc = "panicked"
    /\ main_opt.version /\ main_opt.list /\ main_opt.dump
    /\ stderr # <<>> /\ stdout = <<>>

\* the terminal actions of main in their order of precedence
Precedence ==
    <<"dump_json", "version_json", "version", "list", "json_run", "dump",
      "front_end">>

\* whether the options ask for a terminal action
AskedFor(a) ==
    CASE a = "dump_json" -> main_opt.app_mode = "JSON" /\ main_opt.dump
      [] a = "version_json" -> main_opt.app_mode = "JSON" /\ main_opt.version
      [] a = "version" -> main_opt.version
      [] a = "list" -> main_opt.list
      [] a = "json_run" -> main_opt.app_mode = "JSON"
      [] a = "dump" -> main_opt.dump
      [] a = "front_end" -> TRUE

\* the first terminal action in the order of precedence the options ask for
FirstAskedFor ==
    Precedence[CHOOSE i \in 1..Len(Precedence) :
                   /\ AskedFor(Precedence[i])
                   /\ \A j \in 1..(i - 1) : ~AskedFor(Precedence[j])]

FrontEnds == {"tui", "gui", "smi"}

\* the front end of a mode
FrontEndOf(mode) ==
    CASE mode = "TUI" -> "tui" [] mode = "GUI" -> "gui" [] mode = "SMI" -> "smi"

\* what holds of every run whatever the last action is: at most one
\* terminal action; no front end when the version, list or dump option is
\* set; no selection of a device begun when the version or list option is
\* set
OneActionNoFrontEnd ==
    /\ Len(actions) <= 1
    /\ (main_opt.version \/ main_opt.list \/ main_opt.dump) =>
           \A i \in 1..Len(actions) : actions[i] \notin FrontEnds
    /\ (main_opt.version \/ main_opt.list) =>
           selected = NotRun /\ pc \notin {"select_apu", "from_main_opt", "selected"}

\* C22, as claimed: main takes at most one terminal action, the first in
\* the order JSON dump, JSON version, version, list, JSON run, device dump,
\* front end of the selected mode that the options ask for; the last of
\* them is the front end of the selected mode.
C22_FrontEndOfModeLast ==
    (pc # "none") =>
        /\ OneActionNoFrontEnd
        /\ pc = "done" =>
               actions = <<IF FirstAskedFor = "front_end"
                               THEN FrontEndOf(main_opt.app_mode)
                           ELSE FirstAskedFor>>

\* C22, amended: main takes at most one terminal action, the first in the
\* order JSON dump, JSON version, version, list, JSON run, device dump, arm
\* of the selected mode that the options ask for; the arm of the selected
\* mode starts its front end, except that the TUI arm of a build without
\* the tui feature prints a message to standard error and dumps the device.
\* With the version, list or dump option set no front end is started, and
\* with the version or list option set no device is selected.
C22_OneActionByPrecedence ==
    (pc # "none") =>
        /\ OneActionNoFrontEnd
        /\ pc = "done" =>
               actions = <<IF FirstAskedFor # "front_end" THEN FirstAskedFor
                           ELSE IF main_opt.app_mode = "TUI" /\ ~build.tui
                               THEN "dump"
                           ELSE FrontEndOf(main_opt.app_mode)>>
        /\ (pc = "done" /\ FirstAskedFor = "front_end"
                /\ main_opt.app_mode = "TUI" /\ ~build.tui) => stderr # <<>>

\* a run in TUI mode of a build without the tui feature, no option set,
\* that has ended with the dump of the selected device
C22_Witness ==
    /\ pc = "done"
    /\ main_opt.app_mode = "TUI" /\ ~build.tui
    /\ ~main_opt.dump /\ ~main_opt.version /\ ~main_opt.list
    /\ selected # NotRun
    /\ actions = <<"dump">>

\* a device that initializes, answers the device-info query and is an APU
IsAnsweringApu(d) == d.init = "Ok" /\ d.device_info = "Ok" /\ d.is_apu

\* the positions of the list that hold such a device
ApuPositions ==
    {i \in 1..Len(device_path_list) : IsAnsweringApu(device_path_list[i])}

\* C23: select_apu returns the first device in list order that initializes,
\* answers the device-info query and reports is_apu; a device that fails to
\* initialize or to answer, or is no APU, is passed over and the scan goes
\* on; only when no device of the list qualifies does the function print an
\* error and panic, and it never returns another device.
C23_FirstAnsweringApu ==
    (pc # "none" /\ main_opt.select_apu) =>
        /\ selected # NotRun =>
               /\ selected.index \in ApuPositions
               /\ \A i \in ApuPositions : selected.index <= i
               /\ selected.dev = device_path_list[selected.index]
        /\ pc = "select_apu" =>
               \A i \in 1..(scan - 1) : i \notin ApuPositions
        /\ (pc = "panicked" /\ device_path_list # <<>>) =>
               /\ ApuPositions = {}
               /\ stderr = <<"The APU device is not installed or disabled.">>
               /\ selected = NotRun

\* select_apu has returned the third device of a list whose first device
\* does not initialize and whose second does not answer
C23_Witness ==
    /\ pc \in {"selected", "done"}
    /\ main_opt.select_apu
    /\ Len(device_path_list) = 3
    /\ device_path_list[1].init = "Err"
    /\ device_path_list[2].init = "Ok" /\ device_path_list[2].device_info = "Err"
    /\ selected # NotRun /\ selected.index = 3

====
